---- MODULE Spec2Model ----
(***************************************************************************)
(* A model of go-model (package model): the reflective Copy of one record  *)
(* into another and the Map of a record into a mapping, with the           *)
(* zero-value evaluator, the tag interpreter and the registries of         *)
(* no-traverse types and of conversions they consult.                      *)
(*                                                                         *)
(* Go values are modelled as reflect.Value trees.  A value is a record     *)
(* with its kind k and its type t; pointers, slices and maps carry the     *)
(* origin of their allocation in addr ("nil" for nil).  A panic of the Go  *)
(* runtime is an outcome of a call, carried in the field panic.            *)
(***************************************************************************)
EXTENDS Integers, Sequences, FiniteSets, TLC

VARIABLES NoTraverseTypeList, converterMap, src, dst, call, ret

vars == <<NoTraverseTypeList, converterMap, src, dst, call, ret>>

-----------------------------------------------------------------------------
(* Bounds of the value universe. *)

\* integers range over 0..MaxInt
MaxInt == 1
\* slices hold at most MaxLen elements
MaxLen == 1

-----------------------------------------------------------------------------
(* Constants of the package. *)

OmitField == "-"
OmitEmpty == "omitempty"
NoTraverse == "notraverse"

-----------------------------------------------------------------------------
(* Types (reflect.Type). *)

Basic(n) == [c |-> "basic", n |-> n]
Named(n) == [c |-> "struct", n |-> n]
PtrTo(t) == [c |-> "ptr", e |-> t]
SliceOf(t) == [c |-> "slice", e |-> t]
\* map[string]t, and map[kt]t
MapOf(t) == [c |-> "map", key |-> Basic("string"), e |-> t]
MapFrom(kt, t) == [c |-> "map", key |-> kt, e |-> t]

TInt == Basic("int")
TString == Basic("string")
TByte == Basic("uint8")
typeOfInterface == [c |-> "interface", n |-> "interface {}"]
typeOfBytes == SliceOf(TByte)

\* reflect.Type.Kind
KindOf(t) == IF t.c = "basic" THEN t.n ELSE t.c

\* A struct field declaration (reflect.StructField).  Tag is the value of the
\* "model" key already split at its commas, as strings.Split yields it.
Field(name, type, tag) ==
    [Name |-> name, Type |-> type, Tag |-> tag, Anonymous |-> FALSE, PkgPath |-> ""]
Embedded(name, type, tag) ==
    [Name |-> name, Type |-> type, Tag |-> tag, Anonymous |-> TRUE, PkgPath |-> ""]
Unexported(name, type) ==
    [Name |-> name, Type |-> type, Tag |-> <<"">>, Anonymous |-> FALSE, PkgPath |-> "time"]

NoTag == <<"">>

TSub == Named("SampleSubInfo")
TTime == Named("time.Time")
TURL == Named("url.URL")
TRequest == Named("http.Request")

\* The record types of the universe: the types of the package's tests, and
\* the exported fields of the library types the registry is seeded with.
StructFields(n) ==
    CASE n = "SampleSubInfo" ->
            << Field("Name", TString, NoTag), Field("Year", TInt, NoTag) >>
      [] n = "SampleLevelDst" ->
            << Field("Name", TInt, NoTag) >>
      [] n = "time.Time" ->
            << Unexported("wall", TInt) >>
      [] n = "url.URL" ->
            << Field("Scheme", TString, NoTag) >>
      [] n = "http.Request" ->
            << Field("Method", TString, NoTag), Field("URL", PtrTo(TURL), NoTag) >>
      [] n = "Source" ->
            << Field("Name", TString, NoTag),
               Field("Year", TInt, NoTag),
               Field("Level1", TSub, NoTag),
               Field("Level1Ptr", PtrTo(TSub), NoTag) >>
      [] n = "Destination" ->
            << Field("Name", TInt, NoTag),
               Field("Year", TInt, NoTag),
               Field("Level1", Named("SampleLevelDst"), NoTag),
               Field("Level1Ptr", typeOfInterface, NoTag) >>
      [] n = "Partial" ->
            << Field("Year", TInt, NoTag),
               Field("Level1Ptr", PtrTo(TSub), NoTag) >>
      [] n = "Refs" ->
            << Field("IntPtr", PtrTo(TInt), NoTag),
               Field("Bytes", typeOfBytes, NoTag) >>
      [] n = "Slices" ->
            << Field("Ints", SliceOf(TInt), NoTag),
               Field("Ptrs", SliceOf(PtrTo(TInt)), NoTag) >>
      [] n = "Holder" ->
            << Field("M", MapOf(TInt), NoTag),
               Field("Any", typeOfInterface, NoTag) >>
      [] n = "Keyed" ->
            << Field("MapIntInt", MapFrom(TInt, TInt), NoTag),
               Field("MapStruct", MapOf(TSub), <<"mapStruct">>) >>
      [] n = "SampleStructA" ->
            << Field("Int", TInt, NoTag),
               Field("String", TString, NoTag),
               Field("Mixed", TString, NoTag) >>
      [] n = "SampleStructB" ->
            << Field("Int", TInt, NoTag),
               Field("String", TString, NoTag),
               Field("Mixed", TInt, NoTag) >>
      [] n = "A" ->
            << Field("M", MapOf(Named("C")), NoTag) >>
      [] n = "B" ->
            << Field("M", MapOf(Named("D")), NoTag) >>
      [] n = "C" ->
            << Field("X", TString, NoTag) >>
      [] n = "D" ->
            << Field("X", TString, NoTag) >>
      [] n = "Nested" ->
            << Field("Req", TRequest, NoTag),
               Field("Subs", SliceOf(TSub), NoTag),
               Field("CreatedTime", TTime, NoTag) >>
      [] n = "Inner" ->
            << Field("Name", TString, <<"", "omitempty">>),
               Field("Year", TInt, NoTag) >>
      [] n = "Outer" ->
            << Field("Info", Named("Inner"), NoTag),
               Field("InfoPtr", PtrTo(Named("Inner")), NoTag),
               Field("CreatedTime", PtrTo(TTime), NoTag) >>
      [] n = "Tagged" ->
            << Field("Count", TInt, <<"count", "omitempty">>),
               Field("Secret", TString, <<"-">>),
               Field("Level1", TSub, <<"", "omitempty">>),
               Field("Level1Ptr", PtrTo(TSub), <<"", "omitempty">>) >>
      [] n = "TaggedNT" ->
            << Field("Level1Struct", TSub, <<"", "omitempty", "notraverse">>),
               Field("Level1StructNoTraverse", PtrTo(TSub), <<"", "omitempty", "notraverse">>),
               Embedded("SampleSubInfo", TSub, <<"", "omitempty">>) >>

-----------------------------------------------------------------------------
(* Values (reflect.Value). *)

\* the zero reflect.Value, and a nil interface{} argument
Invalid == [k |-> "invalid"]

IntV(n) == [k |-> "int", t |-> TInt, n |-> n]
ByteV(n) == [k |-> "uint8", t |-> TByte, n |-> n]
StrV(s) == [k |-> "string", t |-> TString, s |-> s]
PtrV(t, a, e) == [k |-> "ptr", t |-> t, addr |-> a, elem |-> e]
StructV(t, f) == [k |-> "struct", t |-> t, f |-> f]
SliceV(t, a, es) == [k |-> "slice", t |-> t, addr |-> a, elems |-> es]
MapV(t, a, m) == [k |-> "map", t |-> t, addr |-> a, m |-> m]
IfaceV(e) == [k |-> "interface", t |-> typeOfInterface, elem |-> e]

EmptyMap == [x \in {} |-> x]

\* where an allocation was made: by the caller for the source, by the caller
\* for the destination, or by the package during the call
Nil == "nil"
SrcAddr == "src"
DstAddr == "dst"
NewAddr == "new"

FieldNames(t) == { StructFields(t.n)[i].Name : i \in 1..Len(StructFields(t.n)) }
FieldDecl(t, name) ==
    StructFields(t.n)[CHOOSE i \in 1..Len(StructFields(t.n)) : StructFields(t.n)[i].Name = name]

\* reflect.Zero
RECURSIVE Zero(_)
Zero(t) ==
    CASE t.c = "basic" ->
            IF t.n = "string" THEN StrV("")
            ELSE IF t.n = "uint8" THEN ByteV(0) ELSE IntV(0)
      [] t.c = "struct" ->
            StructV(t, [name \in FieldNames(t) |-> Zero(FieldDecl(t, name).Type)])
      [] t.c = "ptr" -> PtrV(t, Nil, Invalid)
      [] t.c = "slice" -> SliceV(t, Nil, <<>>)
      [] t.c = "map" -> MapV(t, Nil, EmptyMap)
      [] t.c = "interface" -> IfaceV(Invalid)

-----------------------------------------------------------------------------
(* The reflect helpers of the package. *)

IsValid(v) == v.k # "invalid"

isInterface(v) == v.k = "interface"

isPtr(v) == v.k = "ptr"

\* valueOf(v.Interface()): the value an interface slot holds, any other value
\* as it is; a nil interface yields the zero reflect.Value
Interface(v) == IF v.k = "interface" THEN v.elem ELSE v

indirect(v) == IF v.k = "ptr" THEN v.elem ELSE v

isStruct(v) ==
    LET pv == indirect(IF isInterface(v) THEN Interface(v) ELSE v)
    IN  IF pv.k = "invalid" THEN FALSE ELSE pv.k = "struct"

\* the embedded records of the struct value v that declare a field name:
\* the fields Go promotes
Promoting(v, name) ==
    { i \in 1..Len(StructFields(v.t.n)) :
         /\ StructFields(v.t.n)[i].Anonymous
         /\ StructFields(v.t.n)[i].Type.c = "struct"
         /\ name \in FieldNames(StructFields(v.t.n)[i].Type) }

\* reflect.Value.FieldByName on a struct value: the field v declares, else
\* the one field of that name its embedded records declare
FieldByName(v, name) ==
    IF name \in DOMAIN v.f THEN v.f[name]
    ELSE IF Cardinality(Promoting(v, name)) = 1
         THEN v.f[StructFields(v.t.n)[CHOOSE i \in Promoting(v, name) : TRUE].Name].f[name]
    ELSE Invalid

\* reflect.DeepEqual
RECURSIVE DeepEqual(_, _)
DeepEqual(a, b) ==
    IF ~IsValid(a) \/ ~IsValid(b) THEN IsValid(a) = IsValid(b)
    ELSE IF a.t # b.t THEN FALSE
    ELSE CASE a.k = "slice" ->
                /\ (a.addr = Nil) = (b.addr = Nil)
                /\ Len(a.elems) = Len(b.elems)
                /\ \A i \in 1..Len(a.elems) : DeepEqual(a.elems[i], b.elems[i])
           [] a.k = "interface" ->
                IF ~IsValid(a.elem) \/ ~IsValid(b.elem)
                THEN IsValid(a.elem) = IsValid(b.elem)
                ELSE DeepEqual(a.elem, b.elem)
           [] a.k = "ptr" -> DeepEqual(a.elem, b.elem)
           [] a.k = "struct" ->
                \A name \in DOMAIN a.f : DeepEqual(a.f[name], b.f[name])
           [] a.k = "map" ->
                /\ (a.addr = Nil) = (b.addr = Nil)
                /\ DOMAIN a.m = DOMAIN b.m
                /\ \A key \in DOMAIN a.m : DeepEqual(a.m[key], b.m[key])
           [] OTHER -> a = b

isFieldZero(f) == DeepEqual(Interface(f), Interface(Zero(f.t)))

deepTypeOf(v) ==
    IF isInterface(v) /\ ~isFieldZero(v) THEN Interface(v).t ELSE v.t

isNoTraverseType(v) ==
    IF ~isStruct(v) THEN FALSE ELSE deepTypeOf(v) \in NoTraverseTypeList

\* the exported fields, in declaration order
RECURSIVE exportedFrom(_, _)
exportedFrom(fs, i) ==
    IF i > Len(fs) THEN <<>>
    ELSE (IF fs[i].PkgPath = "" THEN <<fs[i]>> ELSE <<>>) \o exportedFrom(fs, i + 1)

\* modelFields leaving out the fields tagged "-"
modelFieldsNotOmitted(v) ==
    SelectSeq(StructFields(indirect(v).t.n),
              LAMBDA f : f.PkgPath = "" /\ Head(f.Tag) # "-")

modelFields(v) == exportedFrom(StructFields(indirect(v).t.n), 1)

-----------------------------------------------------------------------------
(* The tag interpreter. *)

\* A tag is the sequence of its comma-separated parts: the name, then the
\* options.  isExists is strings.Contains on the options joined again; no
\* option of the universe is part of another, so it is membership.
newTag(modelTag) == [Name |-> Head(modelTag), Options |-> Tail(modelTag)]

isExists(tag, opt) == \E i \in 1..Len(tag.Options) : tag.Options[i] = opt

\* isOmitField finding no field omitted
isOmitFieldNever(tag) == FALSE

isOmitField(tag) == tag.Name = OmitField

\* isOmitEmpty looking for the option in the name part of the tag
isOmitEmptyInName(tag) == tag.Name = OmitEmpty

isOmitEmpty(tag) == isExists(tag, OmitEmpty)

isNoTraverse(tag) == isExists(tag, NoTraverse)

-----------------------------------------------------------------------------
(* The zero-value evaluator. *)

\* IsZero comparing every nested record as one unit, never descending
IsZeroShallow(s) ==
    IF s = Invalid THEN TRUE
    ELSE LET sv == indirect(s) IN
         IF ~isStruct(sv) THEN FALSE
         ELSE LET fields == modelFields(sv) IN
              \A i \in 1..Len(fields) :
                 \/ isOmitField(newTag(fields[i].Tag))
                 \/ isFieldZero(FieldByName(sv, fields[i].Name))

\* IsZero finding every value zero
IsZeroAlways(s) == TRUE

RECURSIVE IsZero(_)
IsZero(s) ==
    IF s = Invalid THEN TRUE
    ELSE LET sv == indirect(s) IN
         IF ~isStruct(sv) THEN FALSE
         ELSE LET fields == modelFields(sv) IN
              \A i \in 1..Len(fields) :
                 LET fv == FieldByName(sv, fields[i].Name)
                     tag == newTag(fields[i].Tag)
                 IN  IF isOmitField(tag) THEN TRUE
                     ELSE IF isStruct(fv)
                          THEN IF isNoTraverseType(fv) \/ isNoTraverse(tag)
                               THEN isFieldZero(fv)
                               ELSE IsZero(Interface(fv))
                          ELSE isFieldZero(fv)

\* structValue: the record s names, or an error
structValue(s) ==
    IF s = Invalid THEN [v |-> Invalid, err |-> [msg |-> "Invalid input <nil>"]]
    ELSE IF ~isStruct(indirect(s))
         THEN [v |-> Invalid, err |-> [msg |-> "Input is not a struct"]]
    ELSE [v |-> indirect(s), err |-> [msg |-> "nil"]]

\* the loop of IsZeroInFields from the name i on
RECURSIVE zeroInFieldsFrom(_, _, _)

\* the loop of IsZeroInFields giving up at a name the record lacks
zeroInFieldsFromNoSkip(sv, names, i) ==
    IF i > Len(names) THEN [name |-> "", zero |-> FALSE]
    ELSE IF ~IsValid(FieldByName(sv, names[i])) THEN [name |-> "", zero |-> FALSE]
    ELSE IF isFieldZero(FieldByName(sv, names[i])) THEN [name |-> names[i], zero |-> TRUE]
    ELSE zeroInFieldsFrom(sv, names, i + 1)

zeroInFieldsFrom(sv, names, i) ==
    IF i > Len(names) THEN [name |-> "", zero |-> FALSE]
    ELSE IF ~IsValid(FieldByName(sv, names[i])) THEN zeroInFieldsFrom(sv, names, i + 1)
    ELSE IF isFieldZero(FieldByName(sv, names[i])) THEN [name |-> names[i], zero |-> TRUE]
    ELSE zeroInFieldsFrom(sv, names, i + 1)

IsZeroInFields(s, names) ==
    IF s = Invalid \/ Len(names) = 0 THEN [name |-> "", zero |-> TRUE]
    ELSE IF structValue(s).err.msg # "nil" THEN [name |-> "", zero |-> FALSE]
    ELSE zeroInFieldsFrom(structValue(s).v, names, 1)

\* HasZero finding a zero only where every field is one
RECURSIVE HasZeroAll(_)
HasZeroAll(s) ==
    IF s = Invalid THEN TRUE
    ELSE LET sv == indirect(s) IN
         IF ~isStruct(sv) THEN FALSE
         ELSE LET fields == modelFields(sv) IN
              \A i \in 1..Len(fields) :
                 LET fv == FieldByName(sv, fields[i].Name)
                     tag == newTag(fields[i].Tag)
                 IN  IF isOmitField(tag) THEN TRUE
                     ELSE IF isStruct(fv)
                          THEN IF isNoTraverseType(fv) \/ isNoTraverse(tag)
                               THEN isFieldZero(fv)
                               ELSE HasZeroAll(Interface(fv))
                          ELSE isFieldZero(fv)

RECURSIVE HasZero(_)
HasZero(s) ==
    IF s = Invalid THEN TRUE
    ELSE LET sv == indirect(s) IN
         IF ~isStruct(sv) THEN FALSE
         ELSE LET fields == modelFields(sv) IN
              \E i \in 1..Len(fields) :
                 LET fv == FieldByName(sv, fields[i].Name)
                     tag == newTag(fields[i].Tag)
                 IN  IF isOmitField(tag) THEN FALSE
                     ELSE IF isStruct(fv)
                          THEN IF isNoTraverseType(fv) \/ isNoTraverse(tag)
                               THEN isFieldZero(fv)
                               ELSE HasZero(Interface(fv))
                          ELSE isFieldZero(fv)

-----------------------------------------------------------------------------
(* Copy. *)

\* an error value, by its format and its arguments
NoError == [msg |-> "nil"]
ErrNotStruct == [msg |-> "Source or Destination is not a struct"]
ErrNotPointer == [msg |-> "Destination struct is not a pointer"]
ErrEmptySource == [msg |-> "Source struct is empty"]
ErrNotExists(name) == [msg |-> "Field: '%v', does not exists in dst", field |-> name]
ErrKind(name, sk, dk) ==
    [msg |-> "Field: '%v', src [%v] & dst [%v] kind didn't match",
     field |-> name, srcKind |-> sk, dstKind |-> dk]
ErrType(name, st, dt) ==
    [msg |-> "Field: '%v', src [%v] & dst [%v] type didn't match",
     field |-> name, srcType |-> st, dstType |-> dt]

\* the outcome of an expression that yields a value, or panics
Val(v) == [v |-> v, panic |-> FALSE]
Panic == [v |-> Invalid, panic |-> TRUE]

\* valiadateCopyField without its comparison of kinds
valiadateCopyFieldNoKind(f, sfv, dfv) ==
    IF ~IsValid(dfv) THEN ErrNotExists(f.Name)
    ELSE IF deepTypeOf(sfv) # deepTypeOf(dfv) /\ ~isInterface(dfv)
         THEN ErrType(f.Name, deepTypeOf(sfv), deepTypeOf(dfv))
    ELSE NoError

\* valiadateCopyField taking a field the destination lacks for a valid one
valiadateCopyFieldNoExists(f, sfv, dfv) ==
    IF ~IsValid(dfv) THEN NoError
    ELSE IF sfv.k # dfv.k /\ ~isInterface(dfv) THEN ErrKind(f.Name, sfv.k, dfv.k)
    ELSE IF deepTypeOf(sfv) # deepTypeOf(dfv) /\ ~isInterface(dfv)
         THEN ErrType(f.Name, deepTypeOf(sfv), deepTypeOf(dfv))
    ELSE NoError

valiadateCopyField(f, sfv, dfv) ==
    IF ~IsValid(dfv) THEN ErrNotExists(f.Name)
    ELSE IF sfv.k # dfv.k /\ ~isInterface(dfv) THEN ErrKind(f.Name, sfv.k, dfv.k)
    ELSE IF deepTypeOf(sfv) # deepTypeOf(dfv) /\ ~isInterface(dfv)
         THEN ErrType(f.Name, deepTypeOf(sfv), deepTypeOf(dfv))
    ELSE NoError

\* f.Type() panics on the zero reflect.Value
zeroOf(f) ==
    IF ~IsValid(f) THEN Panic
    ELSE IF f.k = "ptr" THEN Val(Zero(f.t))
    ELSE Val(indirect(Interface(Zero(f.t))))

\* reflect.Value.CanSet of a field reached through a pointer: the fields the
\* package looks up bear the name of an exported field
CanSet(v) == IsValid(v)

\* reflect.Value.Set of x into a slot of type t: panics when x is the zero
\* reflect.Value or is not assignable to t
Assign(t, x) ==
    IF ~IsValid(x) THEN Panic
    ELSE IF t.c = "interface" THEN Val(IfaceV(Interface(x)))
    ELSE IF x.t # t THEN Panic
    ELSE Val(x)

\* dfv.Set(r.v) for the field name of the record acc.dv, r an outcome
SetField(acc, name, r) ==
    IF r.panic \/ ~IsValid(FieldByName(acc.dv, name)) THEN [acc EXCEPT !.panic = TRUE]
    ELSE LET a == Assign(FieldByName(acc.dv, name).t, r.v) IN
         IF a.panic THEN [acc EXCEPT !.panic = TRUE]
         ELSE IF name \in DOMAIN acc.dv.f THEN [acc EXCEPT !.dv.f[name] = a.v]
         ELSE [acc EXCEPT !.dv.f[StructFields(acc.dv.t.n)[
                                   CHOOSE i \in Promoting(acc.dv, name) : TRUE].Name].f[name] = a.v]

RECURSIVE doCopy(_, _)
RECURSIVE copyVal(_, _)
RECURSIVE copyElems(_, _, _)

\* the end of the traversing branch of doCopy: inner is what the inner
\* doCopy(ndv, sfv) left, nt the type of the record ndv points to
setTraversed(acc, name, sfv, nt, inner) ==
    IF inner.panic THEN [acc EXCEPT !.panic = TRUE]
    ELSE SetField([acc EXCEPT !.errs = @ \o inner.errs], name,
                  IF isPtr(sfv) THEN Val(PtrV(PtrTo(nt), NewAddr, inner.dv))
                  ELSE Val(inner.dv))

\* the test of doCopy and doMap taking every record to be traversed
fieldNoTraverseNever(sfv, tag) == FALSE

\* whether doCopy leaves the field value sfv untraversed
fieldNoTraverse(sfv, tag) == isNoTraverseType(sfv) \/ isNoTraverse(tag)

\* the zero test of doCopy and doMap comparing every value as one unit
fieldIsValUnit(sfv, tag) == ~isFieldZero(sfv)

\* whether doCopy finds a value in the field value sfv
fieldIsVal(sfv, tag) ==
    IF isStruct(sfv) /\ ~fieldNoTraverse(sfv, tag)
    THEN ~IsZero(Interface(sfv))
    ELSE ~isFieldZero(sfv)

\* doCopy copying a traversed nested record into the nested record the
\* destination holds, not into a new one
doCopyFieldInPlace(f, sv, acc) ==
    LET sfv == FieldByName(sv, f.Name)
        tag == newTag(f.Tag)
        dfv == FieldByName(acc.dv, f.Name)
        nt == indirect(sfv).t
    IN  IF isOmitField(tag) THEN acc
        ELSE IF ~fieldIsVal(sfv, tag)
             THEN IF ~isOmitEmpty(tag) THEN SetField(acc, f.Name, zeroOf(dfv)) ELSE acc
        ELSE IF valiadateCopyField(f, sfv, dfv) # NoError
             THEN [acc EXCEPT !.errs = Append(@, valiadateCopyField(f, sfv, dfv))]
        ELSE IF isStruct(sfv) /\ ~fieldNoTraverse(sfv, tag)
             THEN setTraversed(acc, f.Name, sfv, nt,
                     doCopy(PtrV(PtrTo(nt), NewAddr,
                                 IF indirect(dfv).k = "struct" THEN indirect(dfv) ELSE Zero(nt)), sfv))
        ELSE SetField(acc, f.Name, copyVal(sfv, isStruct(sfv)))

\* one turn of the loop of doCopy: the field f of sv into the record acc.dv
doCopyField(f, sv, acc) ==
    LET sfv == FieldByName(sv, f.Name)
        tag == newTag(f.Tag)
        noTraverse == fieldNoTraverse(sfv, tag)
        isVal == fieldIsVal(sfv, tag)
        dfv == FieldByName(acc.dv, f.Name)
        err == valiadateCopyField(f, sfv, dfv)
        nt == indirect(sfv).t
    IN  IF isOmitField(tag) THEN acc
        ELSE IF ~isVal
             THEN IF ~isOmitEmpty(tag) THEN SetField(acc, f.Name, zeroOf(dfv)) ELSE acc
        ELSE IF err # NoError THEN [acc EXCEPT !.errs = Append(@, err)]
        ELSE IF ~CanSet(dfv) THEN acc
        ELSE IF isStruct(sfv)
             THEN IF noTraverse
                  THEN SetField(acc, f.Name, copyVal(sfv, TRUE))
                  ELSE setTraversed(acc, f.Name, sfv, nt,
                                    doCopy(PtrV(PtrTo(nt), NewAddr, Zero(nt)), sfv))
        ELSE SetField(acc, f.Name, copyVal(sfv, FALSE))

RECURSIVE doCopyFrom(_, _, _, _)

\* the loop of doCopy returning at the first error, not continuing
doCopyFromFirstError(fields, i, sv, acc) ==
    IF i > Len(fields) \/ acc.panic \/ acc.errs # <<>> THEN acc
    ELSE doCopyFrom(fields, i + 1, sv, doCopyField(fields[i], sv, acc))

doCopyFrom(fields, i, sv, acc) ==
    IF i > Len(fields) \/ acc.panic THEN acc
    ELSE doCopyFrom(fields, i + 1, sv, doCopyField(fields[i], sv, acc))

\* doCopy yields the record dv points to as the call leaves it, the errors,
\* and whether the call panicked; t.NumField() and dv.FieldByName panic
\* when sv or dv is no struct
doCopy(dvp, svp) ==
    LET dv == indirect(dvp)
        sv == indirect(svp)
    IN  IF sv.k # "struct" \/ dv.k # "struct"
        THEN [dv |-> dv, errs |-> <<>>, panic |-> TRUE]
        ELSE doCopyFrom(modelFields(sv), 1, sv, [dv |-> dv, errs |-> <<>>, panic |-> FALSE])

\* cv.Set(r.v), cv := reflect.New(t).Elem(), for the outcome r of copyVal
setElem(t, r) == IF r.panic THEN Panic ELSE Assign(t, r.v)

\* one element of a map or slice, copied
copyElem(ov) == setElem(ov.t, copyVal(ov, isNoTraverseType(ov)))

appendElem(acc, r) == IF r.panic THEN Panic ELSE Val(Append(acc.v, r.v))

\* the elements i.. of a slice, copied one by one
copyElems(es, i, acc) ==
    IF i > Len(es) \/ acc.panic THEN acc
    ELSE copyElems(es, i + 1, appendElem(acc, copyElem(es[i])))

\* the new map of the copied elements rs
makeMap(t, rs) ==
    IF \E key \in DOMAIN rs : rs[key].panic THEN Panic
    ELSE Val(MapV(t, NewAddr, [key \in DOMAIN rs |-> rs[key].v]))

\* the new slice of the copied elements r.v
makeSlice(t, r) == IF r.panic THEN Panic ELSE Val(SliceV(t, NewAddr, r.v))

\* the record a doCopy into a new record left
unwrap(r) == IF r.panic THEN Panic ELSE Val(r.dv)

\* the end of copyVal handing back the pointer of the source, not a new one
wrapShared(ptr, nf) ==
    IF nf.panic THEN Panic
    ELSE IF ptr
         THEN IF ~IsValid(nf.v) THEN Panic
              ELSE Val(PtrV(PtrTo(nf.v.t), SrcAddr, nf.v))
    ELSE nf

\* the end of copyVal: nf wrapped in a new pointer when the value copied was
\* one; reflect.New(nf.Type()) panics on the zero reflect.Value
wrap(ptr, nf) ==
    IF nf.panic THEN Panic
    ELSE IF ptr
         THEN IF ~IsValid(nf.v) THEN Panic
              ELSE Val(PtrV(PtrTo(nf.v.t), NewAddr, nf.v))
    ELSE nf

\* the switch of copyVal on the kind of f
copyKind(f, notraverse) ==
    CASE f.k = "struct" ->
            IF notraverse THEN Val(f)
            ELSE unwrap(doCopy(PtrV(PtrTo(f.t), NewAddr, Zero(f.t)), f))
      [] f.k = "map" ->
            makeMap(f.t, [key \in DOMAIN f.m |-> copyElem(f.m[key])])
      [] f.k = "slice" ->
            IF f.t = typeOfBytes THEN Val(f)
            ELSE makeSlice(f.t, copyElems(f.elems, 1, Val(<<>>)))
      [] OTHER -> Val(f)

copyVal(f, notraverse) ==
    wrap(isPtr(Interface(f)), copyKind(indirect(Interface(f)), notraverse))

\* the return of Copy after doCopy
copyReturn(r) == [errs |-> r.errs, dv |-> r.dv, panic |-> r.panic]

\* Copy without its test of an empty source
CopyNoEmptyCheck(dstArg, srcArg) ==
    IF ~isStruct(srcArg) \/ ~isStruct(dstArg)
    THEN [errs |-> <<ErrNotStruct>>, dv |-> indirect(dstArg), panic |-> FALSE]
    ELSE IF ~isPtr(dstArg)
    THEN [errs |-> <<ErrNotPointer>>, dv |-> dstArg, panic |-> FALSE]
    ELSE copyReturn(doCopy(dstArg, srcArg))

\* Copy testing the source for emptiness before the destination for a pointer
CopyEmptyCheckFirst(dstArg, srcArg) ==
    IF ~isStruct(srcArg) \/ ~isStruct(dstArg)
    THEN [errs |-> <<ErrNotStruct>>, dv |-> indirect(dstArg), panic |-> FALSE]
    ELSE IF IsZero(srcArg)
    THEN [errs |-> <<ErrEmptySource>>, dv |-> indirect(dstArg), panic |-> FALSE]
    ELSE IF ~isPtr(dstArg)
    THEN [errs |-> <<ErrNotPointer>>, dv |-> dstArg, panic |-> FALSE]
    ELSE copyReturn(doCopy(dstArg, srcArg))

\* Copy without its test that both arguments are records
CopyNoStructCheck(dstArg, srcArg) ==
    IF ~isPtr(dstArg)
    THEN [errs |-> <<ErrNotPointer>>, dv |-> dstArg, panic |-> FALSE]
    ELSE IF IsZero(srcArg)
    THEN [errs |-> <<ErrEmptySource>>, dv |-> indirect(dstArg), panic |-> FALSE]
    ELSE copyReturn(doCopy(dstArg, srcArg))

\* Copy(dst, src): the errors returned, the record the destination argument
\* names as the call leaves it, and whether the call panicked
Copy(dstArg, srcArg) ==
    IF ~isStruct(srcArg) \/ ~isStruct(dstArg)
    THEN [errs |-> <<ErrNotStruct>>, dv |-> indirect(dstArg), panic |-> FALSE]
    ELSE IF ~isPtr(dstArg)
    THEN [errs |-> <<ErrNotPointer>>, dv |-> dstArg, panic |-> FALSE]
    ELSE IF IsZero(srcArg)
    THEN [errs |-> <<ErrEmptySource>>, dv |-> indirect(dstArg), panic |-> FALSE]
    ELSE copyReturn(doCopy(dstArg, srcArg))

-----------------------------------------------------------------------------
(* Map. *)

\* map[string]interface{}
typeOfMap == MapOf(typeOfInterface)

\* the text of a key taken to be the name of its type
SprintfType(kt, key) == kt.n

\* fmt.Sprintf("%v", key.Interface()) for a key of type kt: a string as it
\* is, an integer in its decimal digits
Sprintf(kt, key) == IF kt.n = "string" THEN key ELSE ToString(key)

\* the key of doMap for the field f; isStringEmpty trims spaces, and no tag
\* of the universe names a field with spaces alone
keyNameOf(f, tag) == IF tag.Name # "" THEN tag.Name ELSE f.Name

\* m[keyName] = r.v.Interface() for the outcome r; Interface panics on the
\* zero reflect.Value
putKey(acc, keyName, r) ==
    IF r.panic \/ ~IsValid(r.v) THEN [acc EXCEPT !.panic = TRUE]
    ELSE [acc EXCEPT !.m = [key \in DOMAIN acc.m \cup {keyName} |->
                               IF key = keyName THEN IfaceV(Interface(r.v))
                               ELSE acc.m[key]]]

\* valueOf(m) for the outcome of doMap
mapValue(inner) ==
    IF inner.panic THEN Panic ELSE Val(MapV(typeOfMap, NewAddr, inner.m))

\* the end of the traversing branch of doMap placing the mapping of every
\* record under the key of its field
putTraversedNested(acc, f, keyName, inner) ==
    putKey(acc, keyName, mapValue(inner))

\* the end of the traversing branch of doMap: inner is what doMap(fv) left
putTraversed(acc, f, keyName, inner) ==
    IF inner.panic THEN [acc EXCEPT !.panic = TRUE]
    ELSE IF f.Anonymous
         THEN [acc EXCEPT !.m = [key \in DOMAIN acc.m \cup DOMAIN inner.m |->
                                    IF key \in DOMAIN inner.m THEN inner.m[key]
                                    ELSE acc.m[key]]]
    ELSE putKey(acc, keyName, mapValue(inner))

RECURSIVE doMap(_)
RECURSIVE mapVal(_, _)
RECURSIVE mapElems(_, _, _, _)

\* one turn of the loop of doMap: the field f of sv into the mapping acc.m
doMapField(f, sv, acc) ==
    LET fv == FieldByName(sv, f.Name)
        tag == newTag(f.Tag)
        keyName == keyNameOf(f, tag)
        noTraverse == fieldNoTraverse(fv, tag)
        isVal == fieldIsVal(fv, tag)
    IN  IF isOmitField(tag) THEN acc
        ELSE IF ~isVal
             THEN IF ~isOmitEmpty(tag) THEN putKey(acc, keyName, zeroOf(fv)) ELSE acc
        ELSE IF isStruct(fv)
             THEN IF noTraverse
                  THEN putKey(acc, keyName, mapVal(fv, TRUE))
                  ELSE putTraversed(acc, f, keyName, doMap(fv))
        ELSE putKey(acc, keyName, mapVal(fv, FALSE))

RECURSIVE doMapFrom(_, _, _, _)
doMapFrom(fields, i, sv, acc) ==
    IF i > Len(fields) \/ acc.panic THEN acc
    ELSE doMapFrom(fields, i + 1, sv, doMapField(fields[i], sv, acc))

\* doMap yields the mapping and whether the call panicked; NumField panics
\* when sv is no struct
doMap(svp) ==
    IF indirect(svp).k # "struct" THEN [m |-> EmptyMap, panic |-> TRUE]
    ELSE doMapFrom(modelFields(indirect(svp)), 1, indirect(svp),
                   [m |-> EmptyMap, panic |-> FALSE])

\* one element of a map, mapped
mapElem(mv) == mapVal(mv, isNoTraverseType(mv))

\* the new mapping of the mapped elements rs of a map with keys of type kt;
\* nv.Interface() panics on the zero reflect.Value
makeStringMap(kt, rs) ==
    IF \E key \in DOMAIN rs : rs[key].panic \/ ~IsValid(rs[key].v) THEN Panic
    ELSE Val(MapV(typeOfMap, NewAddr,
                  [skey \in { Sprintf(kt, key) : key \in DOMAIN rs } |->
                     IfaceV(Interface(rs[CHOOSE key \in DOMAIN rs :
                                             Sprintf(kt, key) = skey].v))]))

\* dv.Set(r.v) and nf.Index(i).Set(dv) for the element sv of a slice whose
\* new elements have the type et
setSliceElem(acc, et, sv, r) ==
    IF r.panic THEN Panic
    ELSE LET dv == Assign(IF isStruct(sv) THEN typeOfInterface ELSE sv.t, r.v) IN
         IF dv.panic THEN Panic
         ELSE LET e == Assign(et, dv.v) IN
              IF e.panic THEN Panic ELSE Val(Append(acc.v, e.v))

\* the elements i.. of a slice, mapped one by one
mapElems(es, i, et, acc) ==
    IF i > Len(es) \/ acc.panic THEN acc
    ELSE mapElems(es, i + 1, et, setSliceElem(acc, et, es[i], mapElem(es[i])))

\* the switch of mapVal on the kind of f; a slice of no element leaves nf the
\* zero reflect.Value
mapKind(f, notraverse) ==
    CASE f.k = "struct" ->
            IF notraverse THEN Val(f) ELSE mapValue(doMap(f))
      [] f.k = "map" ->
            makeStringMap(f.t.key, [key \in DOMAIN f.m |-> mapElem(f.m[key])])
      [] f.k = "slice" ->
            IF f.t = typeOfBytes THEN Val(f)
            ELSE IF Len(f.elems) = 0 THEN Val(Invalid)
            ELSE IF isStruct(f.elems[1])
                 THEN makeSlice(SliceOf(typeOfInterface),
                                mapElems(f.elems, 1, typeOfInterface, Val(<<>>)))
            ELSE makeSlice(f.t, mapElems(f.elems, 1, f.t.e, Val(<<>>)))
      [] OTHER -> Val(f)

mapVal(f, notraverse) ==
    wrap(isPtr(Interface(f)), mapKind(indirect(Interface(f)), notraverse))

\* the return of Map after doMap
mapReturn(r) ==
    [val |-> IF r.panic THEN Zero(typeOfMap) ELSE MapV(typeOfMap, NewAddr, r.m),
     err |-> NoError, panic |-> r.panic]

\* Map(s): the mapping and the error returned, and whether the call panicked
Map(s) ==
    IF structValue(s).err # NoError
    THEN [val |-> Zero(typeOfMap), err |-> structValue(s).err, panic |-> FALSE]
    ELSE mapReturn(doMap(structValue(s).v))

-----------------------------------------------------------------------------
(* Clone. *)

\* Clone handing back a pointer to the record of the source as it is
CloneShared(s) ==
    IF structValue(s).err # NoError
    THEN [val |-> Invalid, err |-> structValue(s).err, panic |-> FALSE]
    ELSE [val |-> PtrV(PtrTo(structValue(s).v.t), NewAddr, structValue(s).v),
          err |-> NoError, panic |-> FALSE]

\* Clone refusing a source that IsZero finds empty, as Copy does
CloneRefusingZero(s) ==
    IF structValue(s).err # NoError
    THEN [val |-> Invalid, err |-> structValue(s).err, panic |-> FALSE]
    ELSE IF IsZero(s) THEN [val |-> Invalid, err |-> ErrEmptySource, panic |-> FALSE]
    ELSE [val |-> PtrV(PtrTo(structValue(s).v.t), NewAddr,
                       doCopy(PtrV(PtrTo(structValue(s).v.t), NewAddr,
                                   Zero(structValue(s).v.t)), structValue(s).v).dv),
          err |-> NoError, panic |-> FALSE]

\* the return of Clone after doCopy into the new record: its errors are
\* dropped
cloneReturn(st, r) ==
    [val |-> IF r.panic THEN Invalid ELSE PtrV(PtrTo(st), NewAddr, r.dv),
     err |-> NoError, panic |-> r.panic]

\* Clone(s): the value and the error returned, and whether the call panicked
Clone(s) ==
    IF structValue(s).err # NoError
    THEN [val |-> Invalid, err |-> structValue(s).err, panic |-> FALSE]
    ELSE cloneReturn(deepTypeOf(structValue(s).v),
                     doCopy(PtrV(PtrTo(deepTypeOf(structValue(s).v)), NewAddr,
                                 Zero(deepTypeOf(structValue(s).v))), structValue(s).v))

-----------------------------------------------------------------------------
(* Fields and Tags. *)

\* Fields(s): the fields returned (nil with an error) and the error
Fields(s) ==
    IF structValue(s).err # NoError
    THEN [val |-> <<>>, err |-> structValue(s).err, panic |-> FALSE]
    ELSE [val |-> modelFields(structValue(s).v), err |-> NoError, panic |-> FALSE]

\* Tags(s): the map from field name to tag (nil with an error) and the error
Tags(s) ==
    IF structValue(s).err # NoError
    THEN [val |-> [addr |-> Nil, m |-> EmptyMap], err |-> structValue(s).err, panic |-> FALSE]
    ELSE LET fields == modelFields(structValue(s).v) IN
         [val |-> [addr |-> NewAddr,
                   m |-> [name \in { fields[i].Name : i \in 1..Len(fields) } |->
                            (CHOOSE f \in { fields[i] : i \in 1..Len(fields) } : f.Name = name).Tag]],
          err |-> NoError, panic |-> FALSE]

-----------------------------------------------------------------------------
(* Get and Set. *)

ErrFieldMissing(name) == [msg |-> "Field: '%v', does not exists", name |-> name]
ErrTypeKind(name) == [msg |-> "Field: %v, type/kind did not match", name |-> name]

\* getField: the field name of the record sv, or an error
getField(sv, name) ==
    IF ~IsValid(FieldByName(sv, name))
    THEN [v |-> Invalid, err |-> ErrFieldMissing(name)]
    ELSE [v |-> FieldByName(sv, name), err |-> NoError]

\* Get(s, name): what the field holds, whatever its tag, or nil and an error
Get(s, name) ==
    IF structValue(s).err # NoError
    THEN [val |-> Invalid, err |-> structValue(s).err, panic |-> FALSE]
    ELSE [val |-> Interface(getField(structValue(s).v, name).v),
          err |-> getField(structValue(s).v, name).err, panic |-> FALSE]

\* Set storing whatever value it is given
SetUnchecked(s, name, value) ==
    IF s = Invalid \/ ~isPtr(s) \/ structValue(s).err # NoError
          \/ getField(indirect(s), name).err # NoError \/ ~IsValid(indirect(value))
    THEN [rec |-> indirect(s), err |-> ErrNotPointer, panic |-> FALSE]
    ELSE [rec |-> [indirect(s) EXCEPT !.f[name] = indirect(value)], err |-> NoError, panic |-> FALSE]

\* Set(s, name, value): the record s points to after the call, and the error
Set(s, name, value) ==
    IF s = Invalid
    THEN [rec |-> Invalid, err |-> [msg |-> "Invalid input <nil>"], panic |-> FALSE]
    ELSE IF ~isPtr(s)
    THEN [rec |-> s, err |-> ErrNotPointer, panic |-> FALSE]
    ELSE IF structValue(s).err # NoError
    THEN [rec |-> indirect(s), err |-> structValue(s).err, panic |-> FALSE]
    ELSE IF getField(indirect(s), name).err # NoError
    THEN [rec |-> indirect(s), err |-> getField(indirect(s), name).err, panic |-> FALSE]
    ELSE LET fv == getField(indirect(s), name).v
             tv == IF isPtr(value) THEN indirect(value) ELSE value
         IN  IF fv.k # tv.k \/ fv.t # tv.t
             THEN [rec |-> indirect(s), err |-> ErrTypeKind(name), panic |-> FALSE]
             ELSE [rec |-> [indirect(s) EXCEPT !.f[name] = tv], err |-> NoError, panic |-> FALSE]

-----------------------------------------------------------------------------
(* The no-traverse registry. *)

\* the types init() registers
DefaultNoTraverseTypes ==
    { Named("time.Time"), PtrTo(Named("time.Time")),
      Named("os.File"), PtrTo(Named("os.File")),
      Named("http.Request"), PtrTo(Named("http.Request")),
      Named("http.Response"), PtrTo(Named("http.Response")) }

\* the types the callers of the universe add and remove
Registrable == { TSub, TRequest, TTime }

\* AddNoTraverseType forgetting the types registered before
AddNoTraverseTypeAlone(t) ==
    /\ call.op = "none"
    /\ NoTraverseTypeList' = {t}
    /\ UNCHANGED <<converterMap, src, dst, call, ret>>

AddNoTraverseType(t) ==
    /\ call.op = "none"
    /\ NoTraverseTypeList' =
          IF t \in NoTraverseTypeList THEN NoTraverseTypeList
          ELSE NoTraverseTypeList \cup {t}
    /\ UNCHANGED <<converterMap, src, dst, call, ret>>

RemoveNoTraverseType(t) ==
    /\ call.op = "none"
    /\ NoTraverseTypeList' =
          IF t \in NoTraverseTypeList THEN NoTraverseTypeList \ {t}
          ELSE NoTraverseTypeList
    /\ UNCHANGED <<converterMap, src, dst, call, ret>>

-----------------------------------------------------------------------------
(* The universe of arguments. *)

SeqsUpTo(S, n) == UNION { [1..m -> S] : m \in 0..n }

\* the values an interface{} slot holds
DynValues(a) ==
    { IntV(MaxInt),
      StructV(TSub, [Name |-> StrV("a"), Year |-> IntV(MaxInt)]),
      PtrV(PtrTo(TSub), a, StructV(TSub, [Name |-> StrV("a"), Year |-> IntV(MaxInt)])),
      PtrV(PtrTo(TSub), a, Zero(TSub)),
      PtrV(PtrTo(TSub), Nil, Invalid) }

\* the keys the maps of the universe hold
Keys(kt) == IF kt.n = "string" THEN { "k" } ELSE { MaxInt }

RECURSIVE Values(_, _)
RECURSIVE FieldProduct(_, _, _)

\* the values of type t whose allocations have the origin a
Values(t, a) ==
    CASE t.c = "basic" ->
            IF t.n = "string" THEN { StrV(""), StrV("a") }
            ELSE IF t.n = "uint8" THEN { ByteV(n) : n \in 0..MaxInt }
            ELSE { IntV(n) : n \in 0..MaxInt }
      [] t.c = "struct" ->
            { StructV(t, f) : f \in FieldProduct(StructFields(t.n), 1, a) }
      [] t.c = "ptr" ->
            { PtrV(t, Nil, Invalid) } \cup { PtrV(t, a, e) : e \in Values(t.e, a) }
      [] t.c = "slice" ->
            { SliceV(t, Nil, <<>>) }
               \cup { SliceV(t, a, es) : es \in SeqsUpTo(Values(t.e, a), MaxLen) }
      [] t.c = "map" ->
            { MapV(t, Nil, EmptyMap), MapV(t, a, EmptyMap) }
               \cup { MapV(t, a, [key \in Keys(t.key) |-> v]) : v \in Values(t.e, a) }
      [] t.c = "interface" ->
            { IfaceV(e) : e \in {Invalid} \cup DynValues(a) }

FieldProduct(fs, i, a) ==
    IF i > Len(fs) THEN { EmptyMap }
    ELSE { (fs[i].Name :> v) @@ g : v \in Values(fs[i].Type, a),
                                    g \in FieldProduct(fs, i + 1, a) }

\* a value of type t none of whose parts is zero, and which no source holds
RECURSIVE Full(_)
Full(t) ==
    CASE t.c = "basic" ->
            IF t.n = "string" THEN StrV("prior")
            ELSE IF t.n = "uint8" THEN ByteV(MaxInt + 1) ELSE IntV(MaxInt + 1)
      [] t.c = "struct" ->
            StructV(t, [name \in FieldNames(t) |-> Full(FieldDecl(t, name).Type)])
      [] t.c = "ptr" -> PtrV(t, DstAddr, Full(t.e))
      [] t.c = "slice" -> SliceV(t, DstAddr, << Full(t.e) >>)
      [] t.c = "map" ->
            MapV(t, DstAddr, [key \in (IF t.key.n = "string" THEN {"prior"} ELSE {MaxInt + 1})
                                 |-> Full(t.e)])
      [] t.c = "interface" -> IfaceV(IntV(MaxInt + 1))

SrcTypes ==
    { "Source", "Refs", "Slices", "Holder", "Keyed", "Nested", "Tagged", "TaggedNT" }

\* the record types a caller copies a source of type n into
DstTypes(n) ==
    IF n = "Source" THEN { "Source", "Destination", "Partial" } ELSE { n }

SrcRecords == UNION { Values(Named(n), SrcAddr) : n \in SrcTypes }

DstRecords(s) ==
    UNION { { Zero(Named(n)), Full(Named(n)) } : n \in DstTypes(s.t.n) }

\* what a caller passes for a record r it owns: the record, a pointer to it,
\* nil, a nil pointer, or a value that is no record
ArgShapes == { "value", "pointer", "nil", "nilpointer", "map" }

Arg(r, shape, a) ==
    CASE shape = "value" -> r
      [] shape = "pointer" -> PtrV(PtrTo(r.t), a, r)
      [] shape = "nil" -> Invalid
      [] shape = "nilpointer" -> PtrV(PtrTo(r.t), Nil, Invalid)
      [] shape = "map" -> MapV(MapOf(TString), a, [key \in {"1"} |-> StrV("2001")])

-----------------------------------------------------------------------------
(* The specification. *)

Init ==
    /\ NoTraverseTypeList = DefaultNoTraverseTypes
    /\ converterMap = {}
    /\ src \in SrcRecords
    /\ dst \in DstRecords(src)
    /\ call = [op |-> "none"]
    /\ ret = [errs |-> <<>>, panic |-> FALSE]

\* a call that leaves the zero record where its source was
resetOnRead(sv) == Zero(sv.t)

\* What the record behind the source argument holds when a call of Copy, Map
\* or Clone ends.  The call holds it as sv (indirect(valueOf(src))) and reads
\* it with FieldByName, Interface, Index and MapIndex; each Set, SetMapIndex
\* and Append of the call is on dv or on a value the call made.
readOnly(sv) == sv

\* the caller's state after a call op(dstArg, srcArg) that left r
Returned(op, dstArg, srcArg, r) ==
    /\ call' = [op |-> op, dst |-> dstArg, src |-> srcArg]
    /\ ret' = [errs |-> r.errs, panic |-> r.panic]
    /\ dst' = IF isPtr(dstArg) /\ IsValid(dstArg.elem) THEN r.dv ELSE dst

\* a call Copy(dstArg, srcArg) on the records the caller owns
CopyCall(dshape, sshape) ==
    /\ call.op = "none"
    /\ Returned("Copy", Arg(dst, dshape, DstAddr), Arg(src, sshape, SrcAddr),
                Copy(Arg(dst, dshape, DstAddr), Arg(src, sshape, SrcAddr)))
    /\ src' = readOnly(src)
    /\ UNCHANGED <<NoTraverseTypeList, converterMap>>

\* the names a caller of IsZeroInFields asks for: those of the fields of r,
\* those of the fields its embedded records promote, and one of no field
FieldNamesAsked(r) ==
    FieldNames(r.t)
       \cup UNION { FieldNames(StructFields(r.t.n)[i].Type) :
                      i \in { j \in 1..Len(StructFields(r.t.n)) :
                                StructFields(r.t.n)[j].Anonymous } }
       \cup { "Missing" }

\* no name, one name, or two names in either order
NameLists(r) ==
    { <<>> } \cup { <<a>> : a \in FieldNamesAsked(r) }
            \cup { p \in FieldNamesAsked(r) \X FieldNamesAsked(r) : p[1] # p[2] }

\* the calls of IsZeroInFields on r: the record with each list of names, any
\* other shape of argument with no name and with one
NamesAsked(r, shape) ==
    IF shape = "value" THEN NameLists(r) ELSE { <<>>, <<"Missing">>, <<"Name">> }

\* what a caller holding r can ask about: r, and the records that are its
\* fields
Records(r) == { r } \cup { r.f[name] : name \in { n \in DOMAIN r.f : r.f[n].k = "struct" } }

\* the caller's state after a call op(arg) that answered val
Answered(op, arg, val) ==
    /\ call' = [op |-> op, src |-> arg]
    /\ ret' = [val |-> val, panic |-> FALSE]

IsZeroCall(sshape) ==
    /\ call.op = "none"
    /\ \E r \in Records(src) :
          Answered("IsZero", Arg(r, sshape, SrcAddr), IsZero(Arg(r, sshape, SrcAddr)))
    /\ UNCHANGED <<NoTraverseTypeList, converterMap, src, dst>>

HasZeroCall(sshape) ==
    /\ call.op = "none"
    /\ \E r \in Records(src) :
          Answered("HasZero", Arg(r, sshape, SrcAddr), HasZero(Arg(r, sshape, SrcAddr)))
    /\ UNCHANGED <<NoTraverseTypeList, converterMap, src, dst>>

IsZeroInFieldsCall(sshape, names) ==
    /\ call.op = "none"
    /\ call' = [op |-> "IsZeroInFields", src |-> Arg(src, sshape, SrcAddr), names |-> names]
    /\ ret' = [val |-> IsZeroInFields(Arg(src, sshape, SrcAddr), names), panic |-> FALSE]
    /\ UNCHANGED <<NoTraverseTypeList, converterMap, src, dst>>

\* a call Map(arg) on the record the caller owns
MapCall(sshape) ==
    /\ call.op = "none"
    /\ call' = [op |-> "Map", src |-> Arg(src, sshape, SrcAddr)]
    /\ ret' = Map(Arg(src, sshape, SrcAddr))
    /\ src' = readOnly(src)
    /\ UNCHANGED <<NoTraverseTypeList, converterMap, dst>>

\* a call Clone(arg) on the record the caller owns
CloneCall(sshape) ==
    /\ call.op = "none"
    /\ call' = [op |-> "Clone", src |-> Arg(src, sshape, SrcAddr)]
    /\ ret' = Clone(Arg(src, sshape, SrcAddr))
    /\ src' = readOnly(src)
    /\ UNCHANGED <<NoTraverseTypeList, converterMap, dst>>

FieldsCall(sshape) ==
    /\ call.op = "none"
    /\ \E r \in Records(src) :
          /\ call' = [op |-> "Fields", src |-> Arg(r, sshape, SrcAddr)]
          /\ ret' = Fields(Arg(r, sshape, SrcAddr))
    /\ UNCHANGED <<NoTraverseTypeList, converterMap, src, dst>>

TagsCall(sshape) ==
    /\ call.op = "none"
    /\ \E r \in Records(src) :
          /\ call' = [op |-> "Tags", src |-> Arg(r, sshape, SrcAddr)]
          /\ ret' = Tags(Arg(r, sshape, SrcAddr))
    /\ UNCHANGED <<NoTraverseTypeList, converterMap, src, dst>>

Next ==
    \/ \E dshape \in ArgShapes, sshape \in ArgShapes : CopyCall(dshape, sshape)
    \/ \E t \in Registrable : AddNoTraverseType(t)
    \/ \E t \in Registrable : RemoveNoTraverseType(t)

Spec == Init /\ [][Next]_vars

\* The callers that only ask: they hold no destination of their own, dst is
\* the zero record of the type of src.
InitQuery ==
    /\ NoTraverseTypeList = DefaultNoTraverseTypes
    /\ converterMap = {}
    /\ src \in SrcRecords
    /\ dst = Zero(src.t)
    /\ call = [op |-> "none"]
    /\ ret = [errs |-> <<>>, panic |-> FALSE]

NextQuery ==
    \/ \E sshape \in ArgShapes : IsZeroCall(sshape)
    \/ \E sshape \in ArgShapes : HasZeroCall(sshape)
    \/ \E sshape \in ArgShapes : \E names \in NamesAsked(src, sshape) : IsZeroInFieldsCall(sshape, names)
    \/ \E sshape \in ArgShapes : MapCall(sshape)
    \/ \E sshape \in ArgShapes : CloneCall(sshape)
    \/ \E sshape \in ArgShapes : FieldsCall(sshape)
    \/ \E sshape \in ArgShapes : TagsCall(sshape)
    \/ \E t \in Registrable : AddNoTraverseType(t)
    \/ \E t \in Registrable : RemoveNoTraverseType(t)

SpecQuery == InitQuery /\ [][NextQuery]_vars

\* The callers whose records bear tags or hold records of registered types:
\* they copy, map and ask of the same record.
TaggedTypes == { "Tagged", "TaggedNT", "Nested", "Outer" }

InitTagged ==
    /\ NoTraverseTypeList = DefaultNoTraverseTypes
    /\ converterMap = {}
    /\ src \in UNION { Values(Named(n), SrcAddr) : n \in TaggedTypes }
    /\ dst \in DstRecords(src)
    /\ call = [op |-> "none"]
    /\ ret = [errs |-> <<>>, panic |-> FALSE]

NextTagged ==
    \/ \E dshape \in ArgShapes, sshape \in ArgShapes : CopyCall(dshape, sshape)
    \/ \E sshape \in ArgShapes : MapCall(sshape)
    \/ \E sshape \in ArgShapes : CloneCall(sshape)
    \/ \E sshape \in ArgShapes : IsZeroCall(sshape)
    \/ \E sshape \in ArgShapes : HasZeroCall(sshape)
    \/ \E t \in Registrable : AddNoTraverseType(t)
    \/ \E t \in Registrable : RemoveNoTraverseType(t)

SpecTagged == InitTagged /\ [][NextTagged]_vars

-----------------------------------------------------------------------------
(* Conversions. *)

\* the converter of the tests: the decimal digits of an int, and "lala"
Converter(in) == Val(StrV(ToString(in.n) \o "lala"))

\* the error of the converter of a C into a D
ErrConversionFailed == [msg |-> "Custom conversion failed."]

\* the converter of a C into a D: a D of the same X, and an error when X is
\* "error"
ConverterOfC(in) ==
    [v |-> StructV(Named("D"), [X |-> in.f["X"]]),
     err |-> IF in.f["X"] = StrV("error") THEN ErrConversionFailed ELSE NoError,
     panic |-> FALSE]

\* the pairs of types the callers of the universe register a converter for
ConvPairs == { <<TInt, TString>>, <<Named("C"), Named("D")>> }

\* conversionExists finding no conversion
conversionExistsNever(srcType, destType) == FALSE

conversionExists(srcType, destType) == <<srcType, destType>> \in converterMap

errFieldNotExists == [msg |-> "Field does not exists"]

validateCopyField(f, sfv, dfv) ==
    IF ~IsValid(dfv) THEN errFieldNotExists
    ELSE IF conversionExists(sfv.t, dfv.t) THEN NoError
    ELSE IF sfv.k # dfv.k /\ ~isInterface(dfv) THEN ErrKind(f.Name, sfv.k, dfv.k)
    ELSE IF /\ deepTypeOf(sfv).c \in {"slice", "map"}
            /\ deepTypeOf(sfv).c = deepTypeOf(dfv).c
            /\ conversionExists(deepTypeOf(sfv).e, deepTypeOf(dfv).e)
         THEN NoError
    ELSE IF deepTypeOf(sfv) # deepTypeOf(dfv) /\ ~isInterface(dfv)
         THEN ErrType(f.Name, deepTypeOf(sfv), deepTypeOf(dfv))
    ELSE NoError

AddConversion(in, out) ==
    /\ call.op = "none"
    /\ converterMap' = converterMap \cup { <<in, out>> }
    /\ UNCHANGED <<NoTraverseTypeList, src, dst, call, ret>>

RemoveConversion(in, out) ==
    /\ call.op = "none"
    /\ converterMap' = converterMap \ { <<in, out>> }
    /\ UNCHANGED <<NoTraverseTypeList, src, dst, call, ret>>

\* whether the elements of the field sfv convert into those of dfv: no
\* conversion is registered for the fields' own types, both hold a map, and
\* a conversion is registered for the types of their elements
convertsElems(sfv, dfv) ==
    /\ ~conversionExists(sfv.t, dfv.t)
    /\ sfv.k = "map" /\ dfv.k = "map"
    /\ conversionExists(sfv.t.e, dfv.t.e)

\* whether the Copy that consults the conversions converts the field f of sv:
\* the field holds a value, passes validateCopyField, and a conversion is
\* registered for its type and that of the destination field dfv, or for
\* the types of their elements
converts(f, sfv, dfv) ==
    /\ ~isOmitField(newTag(f.Tag))
    /\ fieldIsVal(sfv, newTag(f.Tag))
    /\ validateCopyField(f, sfv, dfv) = NoError
    /\ (conversionExists(sfv.t, dfv.t) \/ convertsElems(sfv, dfv))

\* the conversion of the elements of a map that drops the converter's errors
copyConvertingElemsDiscarding(f, sfv, acc) ==
    [acc EXCEPT !.dv.f[f.Name] =
                   MapV(@.t, NewAddr,
                        [key \in { k \in DOMAIN sfv.m : sfv.m[k].f["X"] # StrV("error") }
                            |-> ConverterOfC(sfv.m[key]).v])]

\* the conversion of the elements of the map sfv into the field f of acc.dv,
\* a map: the field is set to a new map of its own type holding the
\* converter's outputs, and the list is given the error of every element the
\* converter failed on, that element being left out
copyConvertingElems(f, sfv, acc) ==
    [acc EXCEPT !.dv.f[f.Name] =
                   MapV(@.t, NewAddr,
                        [key \in { k \in DOMAIN sfv.m : ConverterOfC(sfv.m[k]).err = NoError }
                            |-> ConverterOfC(sfv.m[key]).v]),
                !.errs = @ \o [i \in 1..Cardinality({ k \in DOMAIN sfv.m :
                                                         ConverterOfC(sfv.m[k]).err # NoError })
                                   |-> ErrConversionFailed]]

\* the field f of acc.dv set from the field sfv that converts: to the output
\* of the converter, or, a map whose elements convert, element by element
convert(f, sfv, acc) ==
    IF convertsElems(sfv, FieldByName(acc.dv, f.Name))
    THEN copyConvertingElems(f, sfv, acc)
    ELSE SetField(acc, f.Name, Converter(sfv))

\* one turn of the loop of the Copy that consults the conversions: a field
\* that converts is set from the converter, any other field is treated as
\* doCopy treats it (its loop, run over that one field)
doCopyFieldConverting(f, sv, acc) ==
    IF converts(f, FieldByName(sv, f.Name), FieldByName(acc.dv, f.Name))
    THEN convert(f, FieldByName(sv, f.Name), acc)
    ELSE doCopyFrom(<<f>>, 1, sv, acc)

RECURSIVE doCopyConvertingFrom(_, _, _, _)
doCopyConvertingFrom(fields, i, sv, acc) ==
    IF i > Len(fields) \/ acc.panic THEN acc
    ELSE doCopyConvertingFrom(fields, i + 1, sv, doCopyFieldConverting(fields[i], sv, acc))

\* Copy(dst, src) consulting the conversions
CopyConverting(dstArg, srcArg) ==
    IF ~isStruct(srcArg) \/ ~isStruct(dstArg)
    THEN [errs |-> <<ErrNotStruct>>, dv |-> indirect(dstArg), panic |-> FALSE]
    ELSE IF ~isPtr(dstArg)
    THEN [errs |-> <<ErrNotPointer>>, dv |-> dstArg, panic |-> FALSE]
    ELSE IF IsZero(srcArg)
    THEN [errs |-> <<ErrEmptySource>>, dv |-> indirect(dstArg), panic |-> FALSE]
    ELSE copyReturn(doCopyConvertingFrom(modelFields(indirect(srcArg)), 1, indirect(srcArg),
                       [dv |-> indirect(dstArg), errs |-> <<>>, panic |-> FALSE]))

CopyConvertingCall(dshape, sshape) ==
    /\ call.op = "none"
    /\ Returned("Copy", Arg(dst, dshape, DstAddr), Arg(src, sshape, SrcAddr),
                CopyConverting(Arg(dst, dshape, DstAddr), Arg(src, sshape, SrcAddr)))
    /\ UNCHANGED <<NoTraverseTypeList, converterMap, src>>

\* the elements the map of the test of element conversions holds
ElemsOfA == ("1" :> StructV(Named("C"), [X |-> StrV("1")]))
               @@ ("2" :> StructV(Named("C"), [X |-> StrV("2")]))
               @@ ("3" :> StructV(Named("C"), [X |-> StrV("error")]))

\* the sources of the callers of conversions: every SampleStructB, and an A
\* whose map holds some of the elements of the test
ConvSources ==
    Values(Named("SampleStructB"), SrcAddr)
       \cup { StructV(Named("A"),
                      [M |-> MapV(MapOf(Named("C")), SrcAddr, [key \in K |-> ElemsOfA[key]])]) :
                 K \in SUBSET DOMAIN ElemsOfA }

\* the record type a caller of conversions copies a source of type n into
ConvDstType(n) == IF n = "A" THEN "B" ELSE "SampleStructA"

\* The callers of the tests of conversions: they copy a SampleStructB into a
\* SampleStructA, whose field Mixed is of another type, and an A into a B,
\* whose map holds elements of another type.
InitConv ==
    /\ NoTraverseTypeList = DefaultNoTraverseTypes
    /\ converterMap = {}
    /\ src \in ConvSources
    /\ dst \in { Zero(Named(ConvDstType(src.t.n))), Full(Named(ConvDstType(src.t.n))) }
    /\ call = [op |-> "none"]
    /\ ret = [errs |-> <<>>, panic |-> FALSE]

NextConv ==
    \/ \E dshape \in ArgShapes, sshape \in ArgShapes : CopyConvertingCall(dshape, sshape)
    \/ \E p \in ConvPairs : AddConversion(p[1], p[2])
    \/ \E p \in ConvPairs : RemoveConversion(p[1], p[2])

SpecConv == InitConv /\ [][NextConv]_vars

-----------------------------------------------------------------------------
(* The callers of Get and Set. *)

\* the record types of the tests of Get and Set, and a record with tags
AccessTypes == { "SampleStructA", "Tagged" }

\* the names asked for: those of the fields of r, and one r does not declare
AccessNames(r) == FieldNames(r.t) \cup { "NotExists" }

\* the values a caller holding src passes to Set: nil, what a field of src
\* holds, a pointer to it
SetValues(r) ==
    { Invalid } \cup { r.f[name] : name \in DOMAIN r.f }
                \cup { PtrV(PtrTo(r.f[name].t), SrcAddr, r.f[name]) : name \in DOMAIN r.f }

GetCall(sshape, name) ==
    /\ call.op = "none"
    /\ call' = [op |-> "Get", src |-> Arg(src, sshape, SrcAddr), name |-> name]
    /\ ret' = Get(Arg(src, sshape, SrcAddr), name)
    /\ UNCHANGED <<NoTraverseTypeList, converterMap, src, dst>>

SetCall(dshape, name, value) ==
    /\ call.op = "none"
    /\ call' = [op |-> "Set", dst |-> Arg(dst, dshape, DstAddr), name |-> name, value |-> value]
    /\ ret' = [err |-> Set(Arg(dst, dshape, DstAddr), name, value).err,
               panic |-> Set(Arg(dst, dshape, DstAddr), name, value).panic]
    /\ dst' = IF dshape = "pointer" THEN Set(Arg(dst, dshape, DstAddr), name, value).rec ELSE dst
    /\ UNCHANGED <<NoTraverseTypeList, converterMap, src>>

InitAccess ==
    /\ NoTraverseTypeList = DefaultNoTraverseTypes
    /\ converterMap = {}
    /\ src \in UNION { Values(Named(n), SrcAddr) : n \in AccessTypes }
    /\ dst \in { Zero(src.t), Full(src.t) }
    /\ call = [op |-> "none"]
    /\ ret = [errs |-> <<>>, panic |-> FALSE]

NextAccess ==
    \/ \E sshape \in ArgShapes : \E name \in AccessNames(src) : GetCall(sshape, name)
    \/ \E dshape \in ArgShapes : \E name \in AccessNames(dst) : \E value \in SetValues(src) :
          SetCall(dshape, name, value)

SpecAccess == InitAccess /\ [][NextAccess]_vars

-----------------------------------------------------------------------------
(* What the claims speak of. *)

\* the records the last call was given, as they were before it
srcRec == indirect(call.src)
preDst == indirect(call.dst)

\* the last call was a Copy that reached doCopy
CopyProcessed ==
    /\ call.op = "Copy"
    /\ isStruct(call.src) /\ isStruct(call.dst) /\ isPtr(call.dst)
    /\ ~IsZero(call.src)

\* the last call was a Copy that returned
CopyReturned == call.op = "Copy" /\ ~ret.panic

\* the fields of the record sv that doCopy does not skip as omitted
Visible(sv) ==
    { i \in 1..Len(modelFields(sv)) : ~isOmitField(newTag(modelFields(sv)[i].Tag)) }

\* whether a record type, or a type within it, declares a tag
RECURSIVE HasAnnotations(_)
HasAnnotations(t) ==
    CASE t.c = "struct" ->
            \E i \in 1..Len(StructFields(t.n)) :
               \/ StructFields(t.n)[i].Tag # NoTag
               \/ HasAnnotations(StructFields(t.n)[i].Type)
      [] t.c \in {"ptr", "slice", "map"} -> HasAnnotations(t.e)
      [] OTHER -> FALSE

\* no pointer, map or slice other than a []byte within v is one of the source
RECURSIVE Fresh(_)
Fresh(v) ==
    CASE v.k = "ptr" -> v.addr # SrcAddr /\ Fresh(v.elem)
      [] v.k = "slice" ->
            \/ v.t = typeOfBytes
            \/ v.addr # SrcAddr /\ \A i \in 1..Len(v.elems) : Fresh(v.elems[i])
      [] v.k = "map" -> v.addr # SrcAddr /\ \A key \in DOMAIN v.m : Fresh(v.m[key])
      [] v.k = "struct" -> \A name \in DOMAIN v.f : Fresh(v.f[name])
      [] v.k = "interface" -> Fresh(v.elem)
      [] OTHER -> TRUE

\* the same, but for what lies inside a value of a registered no-traverse type
RECURSIVE FreshButOpaque(_)
FreshButOpaque(v) ==
    IF ~IsValid(v) THEN TRUE
    ELSE IF isNoTraverseType(v)
         THEN Interface(v).k = "ptr" => Interface(v).addr # SrcAddr
    ELSE CASE v.k = "ptr" -> v.addr # SrcAddr /\ FreshButOpaque(v.elem)
           [] v.k = "slice" ->
                 \/ v.t = typeOfBytes
                 \/ /\ v.addr # SrcAddr
                    /\ \A i \in 1..Len(v.elems) : FreshButOpaque(v.elems[i])
           [] v.k = "map" ->
                 v.addr # SrcAddr /\ \A key \in DOMAIN v.m : FreshButOpaque(v.m[key])
           [] v.k = "struct" -> \A name \in DOMAIN v.f : FreshButOpaque(v.f[name])
           [] v.k = "interface" -> FreshButOpaque(v.elem)
           [] OTHER -> TRUE

\* A record Copy reproduces: each record it traverses has exported fields
\* only, and each field its zero test counts as zero is the zero value (none
\* is a pointer to an all-zero record).
RECURSIVE PlainRecord(_)
RECURSIVE PlainValue(_)
PlainRecord(sv) ==
    /\ \A i \in 1..Len(StructFields(sv.t.n)) : StructFields(sv.t.n)[i].PkgPath = ""
    /\ \A i \in 1..Len(modelFields(sv)) :
          LET f == modelFields(sv)[i]
              sfv == FieldByName(sv, f.Name)
          IN  IF fieldIsVal(sfv, newTag(f.Tag))
              THEN fieldNoTraverse(sfv, newTag(f.Tag)) \/ PlainValue(sfv)
              ELSE isFieldZero(sfv)
PlainValue(v) ==
    IF ~IsValid(v) \/ isNoTraverseType(v) THEN TRUE
    ELSE LET u == indirect(Interface(v)) IN
         CASE u.k = "struct" -> PlainRecord(u)
           [] u.k = "slice" -> \A i \in 1..Len(u.elems) : PlainValue(u.elems[i])
           [] u.k = "map" -> \A key \in DOMAIN u.m : PlainValue(u.m[key])
           [] OTHER -> TRUE

\* the case of C1: a Copy of a non-zero source record without annotations
\* that returned no errors
CopiedClean ==
    /\ CopyReturned /\ ret.errs = <<>>
    /\ isStruct(call.src)
    /\ ~HasAnnotations(srcRec.t)
    /\ srcRec # Zero(srcRec.t)

\* C1 as stated: when Copy of a non-zero source record without annotations
\* returns no errors, every field of dst deep-equals the field of src, and
\* every pointer, map and non-byte slice reachable from dst is a fresh
\* allocation.
C1_Original ==
    CopiedClean =>
       \A name \in DOMAIN dst.f :
          /\ name \in DOMAIN srcRec.f
          /\ DeepEqual(Interface(dst.f[name]), Interface(srcRec.f[name]))
          /\ Fresh(dst.f[name])

\* C1 as amended: for a source record Copy reproduces (exported fields only,
\* no field that is a pointer to an all-zero record), every field of dst
\* deep-equals the field of src, or both are the zero value of their types;
\* and every pointer, map and non-byte slice reachable from dst outside the
\* values of registered no-traverse types is a fresh allocation.
C1_CopyTotality ==
    (CopiedClean /\ PlainRecord(srcRec)) =>
       \A name \in DOMAIN dst.f :
          /\ name \in DOMAIN srcRec.f
          /\ \/ DeepEqual(Interface(dst.f[name]), Interface(srcRec.f[name]))
             \/ isFieldZero(srcRec.f[name]) /\ isFieldZero(dst.f[name])
          /\ FreshButOpaque(dst.f[name])

C1_Witness ==
    /\ CopiedClean /\ PlainRecord(srcRec)
    /\ srcRec.t = Named("Refs")
    /\ srcRec.f["IntPtr"].addr = SrcAddr /\ dst.f["IntPtr"].addr = NewAddr
    /\ dst.f["IntPtr"].elem = srcRec.f["IntPtr"].elem
    /\ srcRec.f["Bytes"].addr = SrcAddr /\ dst.f["Bytes"].addr = SrcAddr
    /\ preDst = Full(Named("Refs"))

\* the record the source argument names is the zero value of its type
SourceAllZero == isStruct(call.src) /\ srcRec = Zero(srcRec.t)

\* C2 as stated: Copy with an entirely zero-valued source record returns
\* exactly the one error 'Source struct is empty', whatever the shape of the
\* destination argument.
C2_Original ==
    (call.op = "Copy" /\ SourceAllZero) => ret.errs = <<ErrEmptySource>>

\* C2 as amended: Copy with an entirely zero-valued source record and a
\* destination that is a pointer to a record, of whatever record type and
\* content, returns exactly the one error 'Source struct is empty', and leaves
\* the destination record as it was.
C2_EmptySource ==
    (call.op = "Copy" /\ SourceAllZero /\ isPtr(call.dst) /\ isStruct(call.dst)) =>
       /\ ret.errs = <<ErrEmptySource>>
       /\ ~ret.panic
       /\ dst = preDst

C2_Witness ==
    /\ call.op = "Copy" /\ SourceAllZero
    /\ isPtr(call.dst) /\ call.dst.elem = Full(Named("Destination"))
    /\ call.src.k = "struct"
    /\ ret.errs = <<ErrEmptySource>>

\* C3: Copy whose destination is a record passed by value returns exactly the
\* one error 'Destination struct is not a pointer', whatever the source
\* record is (zero or not, by value or by pointer), and changes no field.
C3_NotPointer ==
    (call.op = "Copy" /\ call.dst.k = "struct" /\ isStruct(call.src)) =>
       /\ ret.errs = <<ErrNotPointer>>
       /\ ~ret.panic
       /\ dst = call.dst

C3_Witness ==
    /\ call.op = "Copy" /\ call.dst.k = "struct"
    /\ SourceAllZero
    /\ ret.errs = <<ErrNotPointer>>

\* what names no record: nil, a nil pointer, a value of another kind
NoRecord(v) ==
    ~(v.k = "struct" \/ (v.k = "ptr" /\ v.elem.k = "struct"))

\* C4: Copy called with a nil or non-record source or destination (Copy(nil,
\* nil) too) returns exactly one operation-level error, 'Source or
\* Destination is not a struct', does not panic and changes no field of a
\* destination record.
C4_NotStruct ==
    (call.op = "Copy" /\ (NoRecord(call.src) \/ NoRecord(call.dst))) =>
       /\ ret.errs = <<ErrNotStruct>>
       /\ ~ret.panic
       /\ (call.dst.k = "ptr" /\ call.dst.elem.k = "struct") => dst = call.dst.elem

C4_Witness ==
    /\ call.op = "Copy"
    /\ call.src = Invalid /\ call.dst = Invalid
    /\ ret.errs = <<ErrNotStruct>> /\ ~ret.panic

\* the value of the field name of the destination is a copy of the source's
Copied(name) == DeepEqual(Interface(dst.f[name]), Interface(srcRec.f[name]))

\* the errors of the returned list that name the field name
ErrorsOf(name) ==
    { i \in 1..Len(ret.errs) : ret.errs[i].field = name }

\* the fields of the kind-mismatch case: visible, holding a value, and of a
\* kind other than that of the same-named field of the destination
KindDiffers(i) ==
    LET f == modelFields(srcRec)[i]
        sfv == FieldByName(srcRec, f.Name)
    IN  /\ fieldIsVal(sfv, newTag(f.Tag))
        /\ f.Name \in DOMAIN preDst.f
        /\ KindOf(f.Type) # KindOf(preDst.f[f.Name].t)

\* C5: in a Copy that returns, a non-zero source field whose kind differs
\* from that of the same-named destination field yields exactly one error,
\* naming the field and both kinds, and the destination field keeps its prior
\* value; when the destination field is interface-typed no error names the
\* field and the source value is copied into it.
C5_KindMismatch ==
    (CopyProcessed /\ ~ret.panic) =>
       \A i \in Visible(srcRec) :
          KindDiffers(i) =>
             LET f == modelFields(srcRec)[i]
                 dt == preDst.f[f.Name].t
             IN  IF dt.c = "interface"
                 THEN /\ ErrorsOf(f.Name) = {}
                      /\ dst.f[f.Name].k = "interface"
                      /\ Copied(f.Name)
                 ELSE /\ \E j \in 1..Len(ret.errs) :
                            /\ ErrorsOf(f.Name) = {j}
                            /\ ret.errs[j] = ErrKind(f.Name, KindOf(f.Type), KindOf(dt))
                      /\ dst.f[f.Name] = preDst.f[f.Name]

C5_Witness ==
    /\ CopyProcessed /\ ~ret.panic
    /\ srcRec.t = Named("Source") /\ preDst = Full(Named("Destination"))
    /\ ret.errs[1] = ErrKind("Name", "string", "int")
    /\ dst.f["Name"] = IntV(MaxInt + 1)
    /\ srcRec.f["Level1Ptr"].addr = SrcAddr
    /\ dst.f["Level1Ptr"].elem.addr = NewAddr
    /\ dst.f["Level1Ptr"].elem.elem = srcRec.f["Level1Ptr"].elem

\* the field i of the source holds a value and fails the validation against
\* the destination record dv
Failing(i, dv) ==
    LET f == modelFields(srcRec)[i]
        sfv == FieldByName(srcRec, f.Name)
    IN  /\ ~isOmitField(newTag(f.Tag))
        /\ fieldIsVal(sfv, newTag(f.Tag))
        /\ valiadateCopyField(f, sfv, FieldByName(dv, f.Name)) # NoError

\* the errors of the failing fields from i on, in the order of declaration
RECURSIVE FieldErrors(_, _)
FieldErrors(i, dv) ==
    IF i > Len(modelFields(srcRec)) THEN <<>>
    ELSE LET f == modelFields(srcRec)[i]
             rest == FieldErrors(i + 1, dv)
         IN  IF Failing(i, dv)
             THEN <<valiadateCopyField(f, FieldByName(srcRec, f.Name),
                                       FieldByName(dv, f.Name))>> \o rest
             ELSE rest

\* the field i of the source holds a value and passes the validation
Passing(i, dv) ==
    LET f == modelFields(srcRec)[i]
    IN  /\ fieldIsVal(FieldByName(srcRec, f.Name), newTag(f.Tag))
        /\ ~Failing(i, dv)

\* C6: a field-level error never aborts Copy: the returned list holds one
\* error per failing field, in the order of declaration (the errors of a
\* traversed nested record at the place of its field), and every field that
\* holds a value and passes the validation is written, before and after a
\* failing one.
C6_ErrorsAccumulate ==
    (CopyProcessed /\ ~ret.panic) =>
       /\ ret.errs = FieldErrors(1, preDst)
       /\ \A i \in Visible(srcRec) :
             Passing(i, preDst) =>
                dst.f[modelFields(srcRec)[i].Name] # preDst.f[modelFields(srcRec)[i].Name]

C6_Witness ==
    /\ CopyProcessed /\ ~ret.panic
    /\ srcRec.t = Named("Source") /\ preDst = Full(Named("Destination"))
    /\ Len(ret.errs) = 2
    /\ ret.errs[1].field = "Name" /\ ret.errs[2].field = "Level1"
    /\ dst.f["Year"] = srcRec.f["Year"]
    /\ dst.f["Level1Ptr"].elem.addr = NewAddr

\* the fields of the field-not-found case: visible, holding a value, with no
\* same-named field in the destination
Missing(i) ==
    LET f == modelFields(srcRec)[i]
    IN  /\ fieldIsVal(FieldByName(srcRec, f.Name), newTag(f.Tag))
        /\ f.Name \notin DOMAIN preDst.f

\* the fields both records declare, with one type
Shared(i) ==
    LET f == modelFields(srcRec)[i]
    IN  /\ f.Name \in DOMAIN preDst.f
        /\ preDst.f[f.Name].t = f.Type

SubsetOfSource ==
    /\ DOMAIN preDst.f # DOMAIN srcRec.f
    /\ \A name \in DOMAIN preDst.f :
          name \in DOMAIN srcRec.f /\ preDst.f[name].t = srcRec.f[name].t

\* C8: Copy from a source record into a destination record that declares
\* only a subset of the fields of the source returns an empty error list and
\* copies the fields the two records share; the fields the destination lacks
\* are skipped silently.
C8_SubsetDestination ==
    (CopyProcessed /\ SubsetOfSource) =>
       /\ ~ret.panic
       /\ ret.errs = <<>>
       /\ \A i \in Visible(srcRec) :
             (Shared(i) /\ fieldIsVal(FieldByName(srcRec, modelFields(srcRec)[i].Name),
                                      newTag(modelFields(srcRec)[i].Tag)))
             => Copied(modelFields(srcRec)[i].Name)

\* the tag of a field has the option opt
Tagged(f, opt) == \E j \in 2..Len(f.Tag) : f.Tag[j] = opt

\* C9: in Copy, a source field whose value is zero and that is not tagged
\* omitempty resets the same-named destination field to the zero value of
\* its type, whatever the destination field held.
C9_ZeroResets ==
    CopyProcessed =>
       \A i \in Visible(srcRec) :
          LET f == modelFields(srcRec)[i]
          IN  (/\ ~fieldIsVal(FieldByName(srcRec, f.Name), newTag(f.Tag))
               /\ ~Tagged(f, OmitEmpty)
               /\ f.Name \in DOMAIN preDst.f)
              => dst.f[f.Name] = Zero(preDst.f[f.Name].t)

\* C10: in Copy, a top-level source field tagged omitempty whose value is
\* zero leaves the same-named destination field at its prior value, be the
\* field a scalar, a pointer, a nested or an embedded record, with or without
\* notraverse.
C10_OmitEmptyKeeps ==
    CopyProcessed =>
       \A i \in Visible(srcRec) :
          LET f == modelFields(srcRec)[i]
          IN  (/\ ~fieldIsVal(FieldByName(srcRec, f.Name), newTag(f.Tag))
               /\ Tagged(f, OmitEmpty)
               /\ f.Name \in DOMAIN preDst.f)
              => dst.f[f.Name] = preDst.f[f.Name]

C10_Witness ==
    /\ CopyProcessed /\ ~ret.panic /\ ret.errs = <<>>
    /\ srcRec.t = Named("TaggedNT") /\ preDst = Full(Named("TaggedNT"))
    /\ srcRec.f["Level1Struct"] = Zero(TSub)
    /\ dst.f["Level1Struct"] = Full(TSub)
    /\ srcRec.f["Level1StructNoTraverse"].addr = Nil
    /\ dst.f["Level1StructNoTraverse"] = Full(PtrTo(TSub))
    /\ srcRec.f["SampleSubInfo"].f["Name"] = StrV("a")
    /\ dst.f["SampleSubInfo"] = srcRec.f["SampleSubInfo"]

\* what a call naming the type t leaves in the registry
AfterAdd(t) == NoTraverseTypeList' = NoTraverseTypeList \cup {t}
AfterRemove(t) == NoTraverseTypeList' = NoTraverseTypeList \ {t}

\* C19: the registry starts as the eight seeded defaults; a call of
\* AddNoTraverseType naming a type leaves it registered and a call of
\* RemoveNoTraverseType leaves it unregistered, neither touches another type
\* (so adding a registered type and removing an unregistered one change
\* nothing), and no other call changes the registry.  Hence a type is
\* registered iff the last call naming it was an add, or none named it and it
\* is a default.
C19_Registry ==
    /\ NoTraverseTypeList = DefaultNoTraverseTypes
    /\ Cardinality(DefaultNoTraverseTypes) = 8
    /\ [][/\ \A t \in Registrable : AddNoTraverseType(t) => AfterAdd(t)
          /\ \A t \in Registrable : RemoveNoTraverseType(t) => AfterRemove(t)
          /\ (\A t \in Registrable : ~AddNoTraverseType(t) /\ ~RemoveNoTraverseType(t))
                => UNCHANGED NoTraverseTypeList]_vars

\* a default removed, a type of the caller added, a default removed and
\* added again
C19_Witness ==
    /\ call.op = "none"
    /\ NoTraverseTypeList = (DefaultNoTraverseTypes \ {TTime}) \cup {TSub}

\* the declarations of the fields of the record rec the package sees:
\* exported, and not tagged with the omit sentinel
VisibleDecls(rec) ==
    { i \in 1..Len(StructFields(rec.t.n)) :
         /\ StructFields(rec.t.n)[i].PkgPath = ""
         /\ StructFields(rec.t.n)[i].Tag[1] # "-" }

\* the record a field value names: itself, the one a non-nil pointer points
\* to, the one an interface slot holds; the zero Value when it names none
RecordOf(fv) ==
    LET held == IF fv.k = "interface" THEN fv.elem ELSE fv
        rec == IF held.k = "ptr" THEN held.elem ELSE held
    IN  IF rec.k = "struct" THEN rec ELSE Invalid

\* the field value fv of the declaration f is not descended into: its type
\* (that of the value an interface slot holds) is registered, or its tag has
\* notraverse
Opaque(fv, f) ==
    \/ (IF fv.k = "interface" /\ fv.elem.k # "invalid" THEN fv.elem.t ELSE fv.t)
          \in NoTraverseTypeList
    \/ Tagged(f, "notraverse")

\* every visible field of rec is zero: a nested record that is descended
\* into by this rule again, any other value by comparison with the zero
\* value of its type
RECURSIVE AllVisibleZero(_)
AllVisibleZero(rec) ==
    \A i \in VisibleDecls(rec) :
       LET f == StructFields(rec.t.n)[i]
           fv == rec.f[f.Name]
       IN  IF RecordOf(fv) # Invalid /\ ~Opaque(fv, f)
           THEN AllVisibleZero(RecordOf(fv))
           ELSE fv = Zero(f.Type)

\* C15: IsZero returns true for nil, false for every input that is no record
\* (a nil pointer, a map), and for a record true iff every visible field is
\* zero, a nested record being checked recursively unless its type is
\* registered no-traverse or its tag has notraverse, when it is compared as
\* one unit with the zero value of its type.
C15_IsZero ==
    call.op = "IsZero" =>
       ret.val = IF call.src = Invalid THEN TRUE
                 ELSE IF NoRecord(call.src) THEN FALSE
                 ELSE AllVisibleZero(srcRec)

\* a record that is zero only by recursion: a non-nil pointer to an all-zero
\* record, beside an opaque field that is zero as a unit
C15_Witness ==
    /\ call.op = "IsZero" /\ ret.val = TRUE
    /\ call.src.k = "ptr" /\ ~NoRecord(call.src)
    /\ srcRec.t = Named("Source")
    /\ srcRec.f["Level1Ptr"].addr = SrcAddr
    /\ TSub \notin NoTraverseTypeList

\* some visible field of rec is zero: within a nested record that is
\* descended into, by this rule again; any other value by comparison with the
\* zero value of its type
RECURSIVE SomeVisibleZero(_)
SomeVisibleZero(rec) ==
    \E i \in VisibleDecls(rec) :
       LET f == StructFields(rec.t.n)[i]
           fv == rec.f[f.Name]
       IN  IF RecordOf(fv) # Invalid /\ ~Opaque(fv, f)
           THEN SomeVisibleZero(RecordOf(fv))
           ELSE fv = Zero(f.Type)

\* C16: HasZero returns true for nil, false for every input that is no
\* record, and for a record true iff at least one visible field is zero,
\* nested records being descended into under the rules of IsZero (a zero
\* field of a traversed nested record counts, an opaque one is compared as one
\* unit); it returns false only if no such field is zero.
C16_HasZero ==
    call.op = "HasZero" =>
       ret.val = IF call.src = Invalid THEN TRUE
                 ELSE IF NoRecord(call.src) THEN FALSE
                 ELSE SomeVisibleZero(srcRec)

\* the one zero is a field of a traversed nested record
C16_Witness ==
    /\ call.op = "HasZero" /\ ret.val = TRUE
    /\ ~NoRecord(call.src)
    /\ srcRec.t = Named("Source")
    /\ srcRec.f["Name"] = StrV("a") /\ srcRec.f["Year"] = IntV(MaxInt)
    /\ srcRec.f["Level1"] = StructV(TSub, [Name |-> StrV("a"), Year |-> IntV(MaxInt)])
    /\ srcRec.f["Level1Ptr"].addr = SrcAddr
    /\ srcRec.f["Level1Ptr"].elem = StructV(TSub, [Name |-> StrV("a"), Year |-> IntV(0)])

\* the embedded records of rec that declare the field name
Embedding(rec, name) ==
    { i \in 1..Len(StructFields(rec.t.n)) :
         /\ StructFields(rec.t.n)[i].Anonymous
         /\ name \in DOMAIN rec.f[StructFields(rec.t.n)[i].Name].f }

\* the record rec has a field name, its own or one an embedded record promotes
Has(rec, name) == name \in DOMAIN rec.f \/ Embedding(rec, name) # {}

\* the value of the field name of rec
ValueAt(rec, name) ==
    IF name \in DOMAIN rec.f THEN rec.f[name]
    ELSE rec.f[StructFields(rec.t.n)[CHOOSE i \in Embedding(rec, name) : TRUE].Name].f[name]

\* the places in the list names of the fields rec has whose value is the zero
\* value of its type
ZeroPlaces(rec, names) ==
    { i \in 1..Len(names) : Has(rec, names[i]) /\ ValueAt(rec, names[i]) = Zero(ValueAt(rec, names[i]).t) }

-----------------------------------------------------------------------------
(* Map: what the claims speak of. *)

\* the last call was a Map that reached doMap
MapProcessed == call.op = "Map" /\ ~NoRecord(call.src)

\* the mapping the last call returned
mapped == ret.val.m

\* the key of a declaration: the name of its tag, the name of the field when
\* the tag names none
KeyOf(f) == IF f.Tag[1] # "" THEN f.Tag[1] ELSE f.Name

\* the field f of rec is zero: a record that is descended into when all its
\* visible fields are, any other value when it is the zero value of its type
ZeroField(rec, f) ==
    IF RecordOf(rec.f[f.Name]) # Invalid /\ ~Opaque(rec.f[f.Name], f)
    THEN AllVisibleZero(RecordOf(rec.f[f.Name]))
    ELSE rec.f[f.Name] = Zero(f.Type)

\* the field f of rec is an embedded record that is descended into
Flattened(rec, f) ==
    f.Anonymous /\ RecordOf(rec.f[f.Name]) # Invalid /\ ~Opaque(rec.f[f.Name], f)

\* C13: in Map the key of each visible field is the name of its tag when that
\* is not blank and the name of the field otherwise; a zero field tagged
\* omitempty has no key, a zero field without omitempty is present with the
\* zero value of its type.
C13_MapKeys ==
    MapProcessed =>
       \A i \in VisibleDecls(srcRec) :
          LET f == StructFields(srcRec.t.n)[i]
          IN  IF ZeroField(srcRec, f)
              THEN IF Tagged(f, OmitEmpty) THEN KeyOf(f) \notin DOMAIN mapped
                   ELSE /\ KeyOf(f) \in DOMAIN mapped
                        /\ mapped[KeyOf(f)] = IfaceV(Interface(Zero(f.Type)))
              ELSE Flattened(srcRec, f) \/ KeyOf(f) \in DOMAIN mapped

\* the last call was a Map that returned a mapping
MapReturned == MapProcessed /\ ~ret.panic

\* the record rec has fields of scalars only, none of them tagged
ScalarRecord(rec) ==
    \A i \in 1..Len(StructFields(rec.t.n)) :
       /\ StructFields(rec.t.n)[i].Type.c = "basic"
       /\ StructFields(rec.t.n)[i].Tag = NoTag
       /\ StructFields(rec.t.n)[i].PkgPath = ""

\* the mapping of a record of scalars: each field under its name
ScalarMapping(rec) == [name \in DOMAIN rec.f |-> IfaceV(rec.f[name])]

\* the field f of rec holds a non-zero record, by value or behind a pointer,
\* that is descended into
TraversedRecord(rec, f) ==
    /\ f.Type.c \in {"struct", "ptr"}
    /\ RecordOf(rec.f[f.Name]) # Invalid
    /\ ~Opaque(rec.f[f.Name], f)
    /\ ~ZeroField(rec, f)

\* C12: Map of a record that embeds a non-zero record (an anonymous field,
\* traversed) places the keys of the embedded record in the mapping of the
\* parent beside the parent's own keys, and creates no key named after the
\* embedded type; a named nested record is a nested mapping under its key.
\* Stated of the calls that return.
C12_EmbeddedFlattened ==
    MapReturned =>
       \A i \in VisibleDecls(srcRec) :
          LET f == StructFields(srcRec.t.n)[i]
              rec == RecordOf(srcRec.f[f.Name])
          IN  TraversedRecord(srcRec, f) =>
                 IF f.Anonymous
                 THEN /\ f.Name \notin DOMAIN mapped
                      /\ KeyOf(f) \notin DOMAIN mapped
                      /\ ScalarRecord(rec) =>
                            \A name \in DOMAIN rec.f :
                               /\ name \in DOMAIN mapped
                               /\ mapped[name] = ScalarMapping(rec)[name]
                 ELSE /\ KeyOf(f) \in DOMAIN mapped
                      /\ mapped[KeyOf(f)].elem.k = "map"
                      /\ mapped[KeyOf(f)].elem.t = typeOfMap
                      /\ mapped[KeyOf(f)].elem.addr = NewAddr
                      /\ ScalarRecord(rec) => mapped[KeyOf(f)].elem.m = ScalarMapping(rec)

\* a record with a non-zero embedded record, mapped: the keys of the embedded
\* record lie beside the key of a field of the parent
C12_Witness ==
    /\ MapReturned
    /\ srcRec.t = Named("TaggedNT")
    /\ TraversedRecord(srcRec, FieldDecl(srcRec.t, "SampleSubInfo"))
    /\ srcRec.f["SampleSubInfo"].f["Name"] # StrV("")
    /\ {"Name", "Year", "Level1Struct"} \subseteq DOMAIN mapped

\* the decimal digits of a natural number
Digit == << "0", "1", "2", "3", "4", "5", "6", "7", "8", "9" >>
RECURSIVE Decimal(_)
Decimal(n) == IF n < 10 THEN Digit[n + 1] ELSE Decimal(n \div 10) \o Digit[(n % 10) + 1]

\* the default textual form of a key of a map of type t
TextOf(t, key) == IF t.key = TString THEN key ELSE Decimal(key)

\* what an element of a map or slice becomes: a record of scalars a new
\* mapping of its fields, any other value of the universe itself
ElemMapping(v) ==
    IF v.k = "struct" /\ ScalarRecord(v)
    THEN IfaceV(MapV(typeOfMap, NewAddr, ScalarMapping(v)))
    ELSE IfaceV(v)

\* the same, a record of a registered no-traverse type staying the record
ElemMapped(v) ==
    IF v.k = "struct" /\ v.t \in NoTraverseTypeList THEN IfaceV(v) ELSE ElemMapping(v)

\* the entry under key is a new string-keyed mapping of the elements of the
\* map fv, each element e as Of[e] tells
MappingOfMap(key, fv, Of) ==
    /\ key \in DOMAIN mapped
    /\ mapped[key].elem.k = "map"
    /\ mapped[key].elem.t = typeOfMap
    /\ mapped[key].elem.addr = NewAddr
    /\ DOMAIN mapped[key].elem.m = { TextOf(fv.t, k) : k \in DOMAIN fv.m }
    /\ \A k \in DOMAIN fv.m : mapped[key].elem.m[TextOf(fv.t, k)] = Of[fv.m[k]]

\* the entry under key is a new sequence of generic values, one for each
\* element of the slice fv, each element e as Of[e] tells
SequenceOfSlice(key, fv, Of) ==
    /\ key \in DOMAIN mapped
    /\ mapped[key].elem.k = "slice"
    /\ mapped[key].elem.t = SliceOf(typeOfInterface)
    /\ mapped[key].elem.addr = NewAddr
    /\ Len(mapped[key].elem.elems) = Len(fv.elems)
    /\ \A i \in 1..Len(fv.elems) : mapped[key].elem.elems[i] = Of[fv.elems[i]]

\* the elements of the map or slice fv
ElemsOf(fv) ==
    IF fv.k = "map" THEN { fv.m[k] : k \in DOMAIN fv.m }
    ELSE { fv.elems[i] : i \in 1..Len(fv.elems) }

\* C14 as the spec words it: every map-typed field, and every record element,
\* whatever the registry holds.  Stated of the calls that return.
C14_Original ==
    MapReturned =>
       \A i \in VisibleDecls(srcRec) :
          LET f == StructFields(srcRec.t.n)[i]
              fv == srcRec.f[f.Name]
          IN  /\ f.Type.c = "map" =>
                    MappingOfMap(KeyOf(f), fv, [e \in ElemsOf(fv) |-> ElemMapping(e)])
              /\ (f.Type.c = "slice" /\ f.Type.e.c = "struct" /\ Len(fv.elems) > 0) =>
                    SequenceOfSlice(KeyOf(f), fv, [e \in ElemsOf(fv) |-> ElemMapping(e)])

\* C14: in Map a map-typed field that is not nil becomes a new string-keyed
\* mapping whose keys are the default textual form of the source keys and
\* whose values are mapped in turn, a record value becoming a nested mapping;
\* a slice whose elements are records becomes a sequence of generic values
\* each holding the mapping of its element.  A record element whose type is
\* registered no-traverse stays the record.  Stated of the calls that return.
C14_MapsAndSlices ==
    MapReturned =>
       \A i \in VisibleDecls(srcRec) :
          LET f == StructFields(srcRec.t.n)[i]
              fv == srcRec.f[f.Name]
          IN  /\ (f.Type.c = "map" /\ fv.addr # Nil) =>
                    MappingOfMap(KeyOf(f), fv, [e \in ElemsOf(fv) |-> ElemMapped(e)])
              /\ (f.Type.c = "slice" /\ f.Type.e.c = "struct" /\ Len(fv.elems) > 0) =>
                    SequenceOfSlice(KeyOf(f), fv, [e \in ElemsOf(fv) |-> ElemMapped(e)])

\* a map with integer keys and a map of records, mapped
C14_Witness ==
    /\ MapReturned
    /\ srcRec.t = Named("Keyed")
    /\ srcRec.f["MapIntInt"].m # EmptyMap
    /\ srcRec.f["MapStruct"].m # EmptyMap
    /\ TSub \notin NoTraverseTypeList
    /\ mapped["mapStruct"].elem.m["k"].elem.k = "map"

-----------------------------------------------------------------------------
(* Omitted and opaque fields. *)

\* the fields of rec tagged with the omit sentinel
OmittedNames(rec) ==
    { StructFields(rec.t.n)[i].Name :
        i \in { j \in 1..Len(StructFields(rec.t.n)) : StructFields(rec.t.n)[j].Tag[1] = "-" } }

\* the records that differ from rec in the value of one omitted field only
Variants(rec) ==
    UNION { { [rec EXCEPT !.f[name] = v] :
                v \in Values(FieldDecl(rec.t, name).Type, SrcAddr) \ { rec.f[name] } } :
            name \in OmittedNames(rec) }

\* the argument of the last call, naming the record v in place of its own
Renamed(v) == IF isPtr(call.src) THEN [call.src EXCEPT !.elem = v] ELSE v

\* C11: for two records that differ only in the value of a field tagged "-",
\* IsZero, HasZero and Map return the same, and Copy leaves the destination's
\* field of that name as it was and yields the same destination, the same
\* errors and the same outcome for both.
C11_OmittedFieldIgnored ==
    (call.op # "none" /\ ~NoRecord(call.src)) =>
       \A v \in Variants(srcRec) :
          /\ call.op = "IsZero" => ret.val = IsZero(Renamed(v))
          /\ call.op = "HasZero" => ret.val = HasZero(Renamed(v))
          /\ call.op = "Map" =>
                /\ ret = Map(Renamed(v))
                /\ OmittedNames(srcRec) \cap DOMAIN mapped = {}
          /\ call.op = "Copy" =>
                LET other == Copy(call.dst, Renamed(v))
                IN  /\ ret = [errs |-> other.errs, panic |-> other.panic]
                    /\ (isPtr(call.dst) /\ IsValid(call.dst.elem)) =>
                          /\ dst = other.dv
                          /\ isStruct(call.dst) =>
                                \A name \in OmittedNames(srcRec) \cap DOMAIN dst.f :
                                   dst.f[name] = preDst.f[name]

\* a Copy that wrote other fields of a destination whose omitted field held a
\* value, from a source whose omitted field holds another
C11_Witness ==
    /\ CopyProcessed /\ ~ret.panic
    /\ srcRec.t = Named("Tagged")
    /\ srcRec.f["Secret"] = StrV("a")
    /\ preDst.f["Secret"] = StrV("prior")
    /\ dst.f["Secret"] = StrV("prior")
    /\ dst.f["Count"] = srcRec.f["Count"]
    /\ dst # preDst

\* the field f of rec holds a record that is not descended into and is not
\* the zero value of its type
OpaqueRecord(rec, f) ==
    /\ f.Type.c \in {"struct", "ptr"}
    /\ RecordOf(rec.f[f.Name]) # Invalid
    /\ Opaque(rec.f[f.Name], f)
    /\ rec.f[f.Name] # Zero(f.Type)

\* the value fv as one unit in a new place: a record as it is, a pointer as a
\* new pointer to the record it points to, whatever that record holds
SameUnit(fv) == IF fv.k = "ptr" THEN [fv EXCEPT !.addr = NewAddr] ELSE fv

\* C18: in Copy and in Map a non-zero record field whose type is registered
\* no-traverse or whose tag has notraverse is transferred as one unit: the
\* destination field, or the entry of the mapping, holds the record with all
\* that it holds, and no error of the call comes from inside it.  Stated of
\* the calls that return.
C18_OpaqueUnit ==
    \A i \in (IF call.op \in {"Copy", "Map"} /\ ~NoRecord(call.src)
              THEN VisibleDecls(srcRec) ELSE {}) :
       LET f == StructFields(srcRec.t.n)[i]
       IN  OpaqueRecord(srcRec, f) =>
              /\ (CopyProcessed /\ ~ret.panic) =>
                    /\ dst.f[f.Name] = SameUnit(srcRec.f[f.Name])
                    /\ \A k \in 1..Len(ret.errs) :
                          ret.errs[k].field \notin
                             {f.Name} \cup (DOMAIN RecordOf(srcRec.f[f.Name]).f \ DOMAIN srcRec.f)
              /\ MapReturned =>
                    /\ KeyOf(f) \in DOMAIN mapped
                    /\ mapped[KeyOf(f)] = IfaceV(SameUnit(srcRec.f[f.Name]))

\* a record of a registered type that holds what no traversal would keep (the
\* unexported part of a time.Time), and one held opaque by its tag, copied
C18_Witness ==
    /\ CopyProcessed /\ ~ret.panic
    /\ \/ /\ srcRec.t = Named("Nested")
          /\ OpaqueRecord(srcRec, FieldDecl(srcRec.t, "CreatedTime"))
          /\ OpaqueRecord(srcRec, FieldDecl(srcRec.t, "Req"))
          /\ srcRec.f["Req"].f["URL"].addr = SrcAddr
          /\ preDst = Zero(srcRec.t)
          /\ dst.f["CreatedTime"] = srcRec.f["CreatedTime"]
       \/ /\ srcRec.t = Named("TaggedNT")
          /\ TSub \notin NoTraverseTypeList
          /\ OpaqueRecord(srcRec, FieldDecl(srcRec.t, "Level1StructNoTraverse"))
          /\ preDst = Zero(srcRec.t)
          /\ dst.f["Level1StructNoTraverse"].addr = NewAddr

-----------------------------------------------------------------------------
(* Conversions: what the claim speaks of. *)

\* the fields of the source whose type is not that of the same-named field
\* of the destination
Differing ==
    { name \in DOMAIN srcRec.f \cap DOMAIN preDst.f :
        FieldDecl(srcRec.t, name).Type # FieldDecl(preDst.t, name).Type }

\* what the converter of the tests makes of an int
Converted(v) == StrV(Decimal(v.n) \o "lala")

\* after a Copy of a record whose differing fields hold values: with the
\* conversion registered, the converter's output and no error; without it,
\* the mismatch and the prior value; the other fields copied either way
AfterCopyConverting ==
    (/\ CopyProcessed
     /\ \A name \in Differing :
           /\ srcRec.f[name] # Zero(srcRec.f[name].t)
           /\ <<srcRec.f[name].t, preDst.f[name].t>> \in ConvPairs) =>
       /\ ~ret.panic
       /\ \A name \in DOMAIN srcRec.f \ Differing : dst.f[name] = srcRec.f[name]
       /\ \A name \in Differing :
             IF <<srcRec.f[name].t, preDst.f[name].t>> \in converterMap
             THEN /\ dst.f[name] = Converted(srcRec.f[name])
                  /\ ErrorsOf(name) = {}
             ELSE /\ dst.f[name] = preDst.f[name]
                  /\ Cardinality(ErrorsOf(name)) = 1
                  /\ \A k \in ErrorsOf(name) :
                        ret.errs[k] = ErrKind(name, srcRec.f[name].k, preDst.f[name].k)

\* C20: while a conversion is registered for the types of a source field and
\* of the destination field, Copy of a non-zero field of that pair sets the
\* destination field to the converter's output and reports no mismatch; once
\* RemoveConversion has taken the pair out, the same Copy reports the kind
\* mismatch, leaves the destination field at its prior value and still copies
\* the other fields.
C20_ConversionPrecedence ==
    /\ []AfterCopyConverting
    /\ [][ \A p \in ConvPairs :
              /\ AddConversion(p[1], p[2]) => p \in converterMap'
              /\ RemoveConversion(p[1], p[2]) => p \notin converterMap' ]_vars

\* a Copy made while the conversion was registered, into a destination that
\* held prior values
C20_Witness ==
    /\ CopyProcessed
    /\ <<TInt, TString>> \in converterMap
    /\ srcRec.f["Mixed"] # IntV(0)
    /\ preDst.f["Mixed"] = StrV("prior")
    /\ dst.f["Mixed"] = Converted(srcRec.f["Mixed"])
    /\ ret.errs = <<>>

-----------------------------------------------------------------------------
(* Clone: what the claims speak of. *)

\* the last call was a Clone of a record, by value or by pointer, that
\* returned
CloneReturned == call.op = "Clone" /\ ~NoRecord(call.src) /\ ~ret.panic

\* the record the last Clone returned a pointer to
cloned == ret.val.elem

\* what Clone returns for a record is a new pointer to a record of the type
\* of the source, and no error
NewRecordPointer ==
    /\ ret.err = NoError
    /\ ret.val.k = "ptr" /\ ret.val.addr = NewAddr
    /\ ret.val.t = PtrTo(srcRec.t)
    /\ cloned.k = "struct" /\ cloned.t = srcRec.t

\* what Clone returns for nil and for a value that is no record
NoRecordRefused ==
    (call.op = "Clone" /\ NoRecord(call.src)) =>
       /\ ~ret.panic
       /\ ret.val = Invalid
       /\ ret.err = IF call.src = Invalid THEN [msg |-> "Invalid input <nil>"]
                    ELSE [msg |-> "Input is not a struct"]

\* C21 as the spec words it: the fields of the record returned hold a deep
\* copy of the fields of the source, whatever the source.  Stated of the
\* calls that return.
C21_Original ==
    /\ NoRecordRefused
    /\ CloneReturned =>
          /\ NewRecordPointer
          /\ \A name \in DOMAIN srcRec.f :
                /\ DeepEqual(Interface(cloned.f[name]), Interface(srcRec.f[name]))
                /\ Fresh(cloned.f[name])

\* C21: Clone of a record, given by value or by pointer, returns a pointer to
\* a newly allocated record of the type of the source, with a nil error;
\* Clone of nil or of a value that is no record returns nil and an error.
\* Of a source whose traversed records have exported fields only and hold no
\* pointer to an all-zero record, each field not tagged "-" holds a deep copy
\* of the field of the source, new outside the values of registered
\* no-traverse types, and each field tagged "-" is zero.
C21_Clone ==
    /\ NoRecordRefused
    /\ CloneReturned => NewRecordPointer
    /\ (CloneReturned /\ PlainRecord(srcRec)) =>
          \A i \in 1..Len(StructFields(srcRec.t.n)) :
             LET f == StructFields(srcRec.t.n)[i]
             IN  IF f.Tag[1] = "-" THEN cloned.f[f.Name] = Zero(f.Type)
                 ELSE /\ \/ DeepEqual(Interface(cloned.f[f.Name]), Interface(srcRec.f[f.Name]))
                         \/ isFieldZero(srcRec.f[f.Name]) /\ isFieldZero(cloned.f[f.Name])
                      /\ FreshButOpaque(cloned.f[f.Name])

\* a record holding a pointer to a record, cloned from a pointer to it
C21_Witness ==
    /\ CloneReturned
    /\ isPtr(call.src)
    /\ srcRec.t = Named("Source")
    /\ PlainRecord(srcRec)
    /\ srcRec.f["Level1Ptr"].addr = SrcAddr
    /\ cloned.f["Level1Ptr"].addr = NewAddr
    /\ cloned.f["Level1Ptr"].elem = srcRec.f["Level1Ptr"].elem

\* the last call was a Clone of a record all of whose visible fields are zero
ClonedEmpty == call.op = "Clone" /\ ~NoRecord(call.src) /\ AllVisibleZero(srcRec)

-----------------------------------------------------------------------------
(* Fields and Tags: what the claim speaks of. *)

\* the last call asked for the fields, or the tags, of a record
Enumerated == call.op \in { "Fields", "Tags" } /\ ~NoRecord(call.src)

\* the names of the fields returned
NamesReturned ==
    IF call.op = "Fields" THEN { ret.val[i].Name : i \in 1..Len(ret.val) }
    ELSE DOMAIN ret.val.m

\* the declarations of the exported fields of a record, in declaration order
ExportedDecls(rec) == SelectSeq(StructFields(rec.t.n), LAMBDA f : f.PkgPath = "")

\* the names a list of declarations declares
NamesOf(decls) == { decls[i].Name : i \in 1..Len(decls) }

\* the names of a record's fields tagged "-"
OmittedDecls(rec) ==
    { StructFields(rec.t.n)[i].Name :
         i \in { j \in 1..Len(StructFields(rec.t.n)) : Head(StructFields(rec.t.n)[j].Tag) = "-" } }

-----------------------------------------------------------------------------
(* Get and Set: what the claim speaks of. *)

\* the value Set stores: what a pointer given points to, else the value given
Resolved(value) == IF value.k = "ptr" THEN value.elem ELSE value

\* the conditions of a successful Set: a non-nil pointer to a record, a field
\* the record has, a value of the kind and type of the field once resolved
Settable ==
    /\ call.dst.k = "ptr" /\ call.dst.elem.k = "struct"
    /\ call.name \in DOMAIN call.dst.elem.f
    /\ Resolved(call.value).k # "invalid"
    /\ Resolved(call.value).t = FieldDecl(call.dst.elem.t, call.name).Type

\* C23: Set(dst, name, value) succeeds exactly when dst is a non-nil pointer
\* to a record that has the field name and the value, resolved through one
\* pointer, is of the kind and type of the field.  After a success Get of
\* the field returns the value and every other field is as it was; after a
\* failure there is a single error and the record is as it was.
C23_SetThenGet ==
    call.op = "Set" =>
       /\ ~ret.panic
       /\ (ret.err = NoError) <=> Settable
       /\ ret.err = NoError =>
             /\ Get(dst, call.name) =
                   [val |-> Resolved(call.value), err |-> NoError, panic |-> FALSE]
             /\ \A other \in DOMAIN dst.f \ { call.name } : dst.f[other] = preDst.f[other]
       /\ (ret.err # NoError /\ ~NoRecord(call.dst)) => dst = preDst

\* a Set through a pointer to the value that changed the field, and a field
\* tagged "-" at that
C23_Witness ==
    /\ call.op = "Set" /\ ret.err = NoError
    /\ call.value.k = "ptr"
    /\ dst.f[call.name] # preDst.f[call.name]
    /\ Head(FieldDecl(dst.t, call.name).Tag) = "-"

-----------------------------------------------------------------------------
(* Running to completion. *)

\* the last call was a Copy or a Map whose arguments pass the checks made
\* before any field is looked at
Admitted == CopyProcessed \/ MapProcessed

\* C25: for every source record that passes the operation-level
\* preconditions, Copy and Map run to completion: no call crashes, whatever
\* the shape of the input (an empty interface-typed field, a nil pointer
\* element of a slice or a map, a zero source field the destination has no
\* field for).
C25_RunsToCompletion == Admitted => ~ret.panic

-----------------------------------------------------------------------------
(* The source after the call. *)

-----------------------------------------------------------------------------
(* IsZero and HasZero together. *)

\* the last call asked IsZero or HasZero of nil or of a record
ZeroAsked == call.op \in { "IsZero", "HasZero" } /\ (call.src = Invalid \/ ~NoRecord(call.src))

\* the record rec, and every record the zero checks traverse within it, has a
\* field the checks look at
RECURSIVE Grounded(_)
Grounded(rec) ==
    /\ VisibleDecls(rec) # {}
    /\ \A i \in VisibleDecls(rec) :
          LET f == StructFields(rec.t.n)[i]
              fv == rec.f[f.Name]
          IN  (isStruct(fv) /\ ~Opaque(fv, f)) => Grounded(RecordOf(fv))

\* C27 as the spec words it: for nil and for every record, IsZero true
\* implies HasZero true, and HasZero false implies IsZero false.
C27_Original ==
    ZeroAsked =>
       /\ (call.op = "IsZero" /\ ret.val) => HasZero(call.src)
       /\ (call.op = "HasZero" /\ ~ret.val) => ~IsZero(call.src)

\* C27: for nil, and for every record in which the record itself and each
\* record the checks traverse has at least one field the checks look at,
\* IsZero true implies HasZero true and HasZero false implies IsZero false.
C27_ZeroImpliesHasZero ==
    (ZeroAsked /\ (call.src = Invalid \/ Grounded(srcRec))) =>
       /\ (call.op = "IsZero" /\ ret.val) => HasZero(call.src)
       /\ (call.op = "HasZero" /\ ~ret.val) => ~IsZero(call.src)

\* IsZero of a record that is zero though not the zero value of its type
C27_Witness ==
    /\ call.op = "IsZero" /\ ~NoRecord(call.src) /\ Grounded(srcRec)
    /\ ret.val /\ srcRec # Zero(srcRec.t)
    /\ HasZero(call.src)

-----------------------------------------------------------------------------
(* Nested records in Copy. *)

\* the field i of the source is a nested record, or a pointer to one, that
\* Copy traverses, finds a value in and finds a field of its type for in the
\* destination
NestedCopied(i) ==
    LET f == modelFields(srcRec)[i]
        sfv == FieldByName(srcRec, f.Name)
    IN  /\ f.Type.c \in { "struct", "ptr" }
        /\ isStruct(sfv)
        /\ ~Opaque(sfv, f)
        /\ Passing(i, preDst)

\* the record to is built from the record from and from nothing else: a
\* visible field that is zero in from is zero in to, a visible scalar is that
\* of from, a field that is not visible is zero
BuiltFrom(to, from) ==
    /\ to.k = "struct" /\ to.t = from.t
    /\ \A j \in 1..Len(StructFields(from.t.n)) :
          LET g == StructFields(from.t.n)[j]
          IN  IF j \notin VisibleDecls(from) \/ from.f[g.Name] = Zero(g.Type)
              THEN to.f[g.Name] = Zero(g.Type)
              ELSE g.Type.c = "basic" => to.f[g.Name] = from.f[g.Name]

\* C28: in a Copy that returns, a non-zero traversed nested record field
\* replaces the nested record of the destination by a record built from the
\* source's alone (behind a new pointer for a pointer field): nothing of what
\* the destination held there survives, and a field of the nested record
\* that is tagged omitempty and zero in the source is zero in the
\* destination.
C28_NestedReplaced ==
    (CopyProcessed /\ ~ret.panic) =>
       \A i \in Visible(srcRec) :
          NestedCopied(i) =>
             LET name == modelFields(srcRec)[i].Name
             IN  /\ BuiltFrom(RecordOf(dst.f[name]), RecordOf(srcRec.f[name]))
                 /\ dst.f[name].k = "ptr" => dst.f[name].addr = NewAddr

\* a nested record whose omitempty field is zero in the source and held a
\* value in the destination, zero after the Copy
C28_Witness ==
    /\ CopyProcessed /\ ~ret.panic
    /\ srcRec.t = Named("Outer") /\ preDst = Full(Named("Outer"))
    /\ srcRec.f["Info"] = StructV(Named("Inner"), [Name |-> StrV(""), Year |-> IntV(1)])
    /\ preDst.f["Info"].f["Name"] = StrV("prior")
    /\ dst.f["Info"] = srcRec.f["Info"]

-----------------------------------------------------------------------------
(* Pointers to zero records. *)

\* a non-nil pointer to a record that is the zero value of its type
ZeroRecordPointer(fv) ==
    fv.k = "ptr" /\ fv.addr # Nil /\ fv.elem.k = "struct" /\ fv.elem = Zero(fv.elem.t)

\* the visible fields of rec that hold such a pointer
ZeroRecordPointers(rec) ==
    { i \in VisibleDecls(rec) : ZeroRecordPointer(rec.f[StructFields(rec.t.n)[i].Name]) }

\* rec with nil in the field name
WithNil(rec, name) == [rec EXCEPT !.f[name] = Zero(@.t)]

\* rec with a pointer to a record that has no zero field in the field name
WithFull(rec, name) == [rec EXCEPT !.f[name].elem = Full(@.t)]

\* C29: a non-nil pointer field that points to an all-zero record counts as
\* zero when the field is traversed and as non-zero when its type is
\* registered no-traverse or its tag has notraverse.  Traversed: IsZero
\* answers as for nil in the field, HasZero answers true, Copy resets the
\* field of the destination to nil (leaves it alone under omitempty), Map
\* gives the key a nil pointer (no key under omitempty).  Not traversed:
\* IsZero answers false, HasZero answers as for a pointer to a record with
\* no zero field, Copy stores a new pointer to the record, Map gives the
\* key a pointer to it.  Copy and Map stated of the calls that return.
C29_PointerToZeroRecord ==
    \A i \in (IF call.op \in {"IsZero", "HasZero", "Copy", "Map"} /\ ~NoRecord(call.src)
              THEN ZeroRecordPointers(srcRec) ELSE {}) :
       LET f == StructFields(srcRec.t.n)[i]
           fv == srcRec.f[f.Name]
       IN  IF ~Opaque(fv, f)
           THEN /\ call.op = "IsZero" => ret.val = AllVisibleZero(WithNil(srcRec, f.Name))
                /\ call.op = "HasZero" => ret.val = TRUE
                /\ (CopyProcessed /\ ~ret.panic) =>
                      dst.f[f.Name] = IF Tagged(f, OmitEmpty) THEN preDst.f[f.Name]
                                      ELSE Zero(f.Type)
                /\ MapReturned =>
                      IF Tagged(f, OmitEmpty) THEN KeyOf(f) \notin DOMAIN mapped
                      ELSE /\ KeyOf(f) \in DOMAIN mapped
                           /\ mapped[KeyOf(f)] = IfaceV(Zero(f.Type))
           ELSE /\ call.op = "IsZero" => ret.val = FALSE
                /\ call.op = "HasZero" => ret.val = SomeVisibleZero(WithFull(srcRec, f.Name))
                /\ (CopyProcessed /\ ~ret.panic) =>
                      dst.f[f.Name] = PtrV(f.Type, NewAddr, fv.elem)
                /\ MapReturned =>
                      /\ KeyOf(f) \in DOMAIN mapped
                      /\ mapped[KeyOf(f)] = IfaceV(PtrV(f.Type, NewAddr, fv.elem))

\* a Copy that reset to nil the pointer of the destination, the source's
\* pointing to a zero record
C29_Witness ==
    /\ CopyProcessed /\ ~ret.panic
    /\ srcRec.t = Named("Outer") /\ preDst = Full(Named("Outer"))
    /\ ZeroRecordPointer(srcRec.f["InfoPtr"])
    /\ dst.f["InfoPtr"] = Zero(PtrTo(Named("Inner")))

-----------------------------------------------------------------------------
(* Errors of the elements of a map: what the claim speaks of. *)

\* a Copy of an A into a B walked the fields while the conversion of the
\* elements of their maps was registered
ElementsConverted ==
    /\ CopyProcessed
    /\ srcRec.t = Named("A")
    /\ <<Named("C"), Named("D")>> \in converterMap

\* the keys of the source's map at which the record is the one the converter
\* of the test fails on
FailingKeys ==
    { k \in DOMAIN srcRec.f["M"].m : srcRec.f["M"].m[k].f["X"] = StrV("error") }

====
